---- MODULE Spec2Model ----
(***************************************************************************)
(* jsthermalcomfort, Gagge two-node model: two_nodes, two_nodes_array and  *)
(* calculate_two_nodes of src/src/models/two_nodes.js as a state machine.  *)
(*                                                                         *)
(* Numbers.  A JavaScript number x is represented by the integer           *)
(* round(x * S) with S = 10^6 (six decimal places).  Every arithmetic      *)
(* operator of the source is computed on that representation: Mul and Div  *)
(* round to the nearest unit, Exp and Ln are series evaluated in the same  *)
(* representation, Pow(x, y) = Exp(y * Ln(x)).  Literals of the source are *)
(* written scaled, with the source value in a comment.                     *)
(***************************************************************************)
EXTENDS Integers, Sequences, FiniteSets, TLC

VARIABLES
  pc,    \* control position: "idle", "for", "while", "clothing", "set", "et",
         \* "done", "error"
  call,  \* the call in progress: [fn, args]
  arr,   \* the locals of two_nodes_array
  sim,   \* the locals of calculate_two_nodes
  ret,   \* what the call returned or threw: [error, value]
  prev,  \* the call made before this one and what it returned: [call, ret]
  first  \* a call of two_nodes that is made again later, and what it returned

\* ------------------------------------------------------------------------
\* Fixed-point arithmetic standing for the IEEE-754 operations of the source
\* ------------------------------------------------------------------------
S == 1000000

Abs(x) == IF x < 0 THEN -x ELSE x

Sgn(x) == IF x < 0 THEN -1 ELSE 1

Max(a, b) == IF a >= b THEN a ELSE b

\* a * b for a, b >= 0, rounded; split so that no partial product leaves 32 bits.
MulN(a, b) ==
  LET aq == a \div S
      ar == a % S
      bq == b \div S
      br == b % S
      a1 == ar \div 1000
      a0 == ar % 1000
  IN  aq * bq * S + aq * br + ar * bq
        + (a1 * br + (a0 * br + 500000) \div 1000) \div 1000

Mul(a, b) == Sgn(a) * Sgn(b) * MulN(Abs(a), Abs(b))

\* Long division: n further decimal digits of r / b appended to q, then rounded.
RECURSIVE DivDigits(_, _, _, _)
DivDigits(r, b, q, n) ==
  IF n = 0
  THEN q + (IF 2 * r >= b THEN 1 ELSE 0)
  ELSE DivDigits((r * 10) % b, b, q * 10 + (r * 10) \div b, n - 1)

\* a / b for a >= 0, b > 0.
RECURSIVE DivN(_, _)
DivN(a, b) ==
  IF b > 200000000
  THEN DivN(a \div 10, b \div 10)
  ELSE DivDigits(a % b, b, a \div b, 6)

Div(a, b) == Sgn(a) * Sgn(b) * DivN(Abs(a), Abs(b))

\* a / n for a plain positive integer n, rounded.
DivInt(a, n) == Sgn(a) * ((Abs(a) + n \div 2) \div n)

LN2 == 693147

RECURSIVE Pow2(_)
Pow2(k) == IF k = 0 THEN 1 ELSE 2 * Pow2(k - 1)

\* 1 + r/1 * (1 + r/2 * (1 + ... r/n)), the Taylor polynomial of exp in Horner form.
RECURSIVE ExpSeries(_, _, _)
ExpSeries(r, n, acc) ==
  IF n = 0 THEN acc ELSE ExpSeries(r, n - 1, S + DivInt(Mul(r, acc), n))

\* Math.exp: x = k ln2 + r with 0 <= r < ln2, exp(x) = 2^k exp(r).
Exp(x) ==
  LET k == x \div LN2
      e == ExpSeries(x - k * LN2, 12, S)
  IN  IF k >= 0 THEN e * Pow2(k) ELSE DivInt(e, Pow2(-k))

\* sum over odd i <= top of z^(i-1) / i, in Horner form in z2 = z^2.
RECURSIVE LnSeries(_, _, _)
LnSeries(z2, i, acc) ==
  IF i < 1 THEN acc ELSE LnSeries(z2, i - 2, DivInt(S, i) + Mul(z2, acc))

\* x = 2^k m with 1 <= m < 2, ln x = k ln2 + 2 atanh((m - 1) / (m + 1)).
RECURSIVE LnNorm(_, _)
LnNorm(m, k) ==
  IF m >= 2 * S THEN LnNorm(m \div 2, k + 1)
  ELSE IF m < S THEN LnNorm(m * 2, k - 1)
  ELSE LET z == Div(m - S, m + S)
       IN  k * LN2 + 2 * Mul(z, LnSeries(Mul(z, z), 11, DivInt(S, 13)))

Ln(x) == LnNorm(x, 0)

\* Math.pow(x, y) for x > 0.
Pow(x, y) == Exp(Mul(y, Ln(x)))

\* x ** 3.0
Cube(x) == Mul(Mul(x, x), x)

\* ------------------------------------------------------------------------
\* Module constants of two_nodes.js (scaled by S)
\* ------------------------------------------------------------------------
kClo == 250000                  \* 0.25
bodyWeight == 70000000          \* 70
metFactor == 58200000           \* 58.2
sbc6 == 56697                   \* sbc * 10^6 = 0.056697 (sbc = 0.000000056697)
cSw == 170000000                \* 170
cDil == 120000000               \* 120
cStr == 500000                  \* 0.5
tempSkinNeutral == 33700000     \* 33.7
tempCoreNeutral == 36800000     \* 36.8
skinBloodFlowNeutral == 6300000 \* 6.3
lengthTimeSimulation == 60
iterationLimit == 150
tolerance == 10000              \* 0.01, of the clothing loop and of both solvers

\* JavaScript truthiness of kwargs.w_max: <<>> stands for false, <<x>> for the number x.
Truthy(opt) == Len(opt) > 0 /\ opt[1] # 0

\* (x > 0) * x
Positive(x) == IF x > 0 THEN x ELSE 0

\* p_sat_torr(tdb) and the inline Math.exp(18.6686 - 4030.183 / (t + 235.0)).
p_sat_torr(t) == Exp(18668600 - 10 * Div(403018300, t + 235000000))

\* The vapor pressure at half the relative humidity, for comparison with
\* cal_vapor_pressure.
cal_vapor_pressure_halved(tdb, rh) == Mul(Div(rh, 200 * S), p_sat_torr(tdb))

\* cal_vapor_pressure: (rh * p_sat_torr(tdb)) / 100
cal_vapor_pressure(tdb, rh) == Mul(Div(rh, 100 * S), p_sat_torr(tdb))

calculate_metabolic_rate(met, wme) == Mul(met - wme, metFactor)

calculate_w_max(airSpeed, clo, kwargs) ==
  IF Truthy(kwargs.w_max) THEN 0
  ELSE IF clo > 0 THEN Mul(590000, Pow(airSpeed, -80000))
  ELSE Mul(380000, Pow(airSpeed, -290000))

\* Object.assign(defaults_kwargs, kwargs)
defaults_kwargs ==
  [calculate_ce |-> FALSE, round |-> TRUE, max_sweating |-> 500 * S, w_max |-> <<>>]

\* Object.assign onto a defaults object that outlives the call, shown on its
\* round flag: the flag of the call before stays in it.  For comparison with
\* joint_kwargs, whose defaults_kwargs is made anew in every call.
joint_kwargs_kept(kwargs) ==
  LET kept == IF "a" \in DOMAIN sim
              THEN [defaults_kwargs EXCEPT !.round = sim.a.kwargs.round]
              ELSE defaults_kwargs
  IN  [k \in DOMAIN kept \cup DOMAIN kwargs |->
         IF k \in DOMAIN kwargs THEN kwargs[k] ELSE kept[k]]

joint_kwargs(kwargs) ==
  [k \in DOMAIN defaults_kwargs \cup DOMAIN kwargs |->
     IF k \in DOMAIN kwargs THEN kwargs[k] ELSE defaults_kwargs[k]]

\* hCc raised by the activity term unless kwargs.calculate_ce; shared by the
\* prologue (lines 680-683) and the SET epilogue (lines 788-791).
WithMetConvection(h, met, kwargs) ==
  IF ~kwargs.calculate_ce /\ met > 850000
  THEN Max(h, Mul(5660000, Pow(met - 850000, 390000)))
  ELSE h

\* The air speed with a floor below 0.1 m/s, for comparison with airSpeed.
airSpeedFloorHalved(v) == Max(v, 50000)

\* const airSpeed = Math.max(v, 0.1) (line 633)
airSpeed(v) == Max(v, 100000)

\* The locals of calculate_two_nodes on reaching the time loop (lines 633-693).
\* error = "TypeError" when line 667 assigns to the const eComfort.
Enter(a) ==
  LET alfa == 100000
      pressureInAtmospheres == DivN(a.pAtmospheric, 101325)
      rClo == Mul(155000, a.clo)
      fACl == S + Mul(150000, a.clo)
      rm == calculate_metabolic_rate(a.met, a.wme)
      m == Mul(a.met, metFactor)
      eComfort == Mul(420000, rm - metFactor)
      hCc0 == Mul(3 * S, Pow(pressureInAtmospheres, 530000))
      hFc == Mul(8600001, Pow(Mul(airSpeed(a.v), pressureInAtmospheres), 530000))
      hCc == WithMetConvection(Max(hCc0, hFc), a.met, a.kwargs)
      hR == 4700000
      hT == hR + hCc
  IN  [a |-> a, error |-> IF eComfort < 0 THEN "TypeError" ELSE "",
       airSpeed |-> airSpeed(a.v), alfa |-> alfa,
       tempBodyNeutral |-> Mul(alfa, tempSkinNeutral) + Mul(S - alfa, tempCoreNeutral),
       tSkin |-> tempSkinNeutral, tCore |-> tempCoreNeutral,
       mBl |-> skinBloodFlowNeutral, eSkin |-> Mul(100000, a.met),
       qSensible |-> 0, w |-> 0, set |-> 0, eRsw |-> 0, eDiff |-> 0, eMax |-> 0,
       mRsw |-> 0, et |-> 0, eReq |-> 0, rEa |-> 0, rEcl |-> 0,
       pressureInAtmospheres |-> pressureInAtmospheres, nSimulation |-> 0,
       rClo |-> rClo, fACl |-> fACl, lr |-> Div(2200000, pressureInAtmospheres),
       rm |-> rm, m |-> m, eComfort |-> eComfort,
       iCl |-> IF a.clo > 0 THEN 450000 ELSE S,
       wMax |-> calculate_w_max(airSpeed(a.v), a.clo, a.kwargs),
       hCc |-> hCc, hR |-> hR, hT |-> hT,
       rA |-> Div(S, Mul(fACl, hT)),
       tOp |-> Div(Mul(hR, a.tr) + Mul(hCc, a.tdb), hT),
       tBody |-> Mul(alfa, tempSkinNeutral) + Mul(S - alfa, tempCoreNeutral),
       qRes |-> Mul(Mul(2300, m), 44 * S - a.vaporPressure),
       cRes |-> Mul(Mul(1400, m), 34 * S - a.tdb),
       tCl |-> 0, nIterations |-> 0, tcConverged |-> FALSE,
       qSkin |-> 0, pSSk |-> 0, hDS |-> 0, hES |-> 0, old |-> 0, dx |-> 0]

\* A time loop that makes one pass more, for comparison with TimeLoopRuns.
TimeLoopRunsOnceMore(s) == s.nSimulation <= lengthTimeSimulation

\* while (nSimulation < lengthTimeSimulation) (line 694)
TimeLoopRuns(s) == s.nSimulation < lengthTimeSimulation

\* Top of one pass of the time loop (lines 695-700).
BeginStep(s) ==
  [s EXCEPT !.nSimulation = s.nSimulation + 1,
            !.tCl = Div(Mul(s.rA, s.tSkin) + Mul(s.rClo, s.tOp), s.rA + s.rClo),
            !.nIterations = 0,
            !.tcConverged = FALSE]

\* The factor with the test made for "standing", for comparison with
\* bodyPositionFactor.
bodyPositionFactorStanding(bodyPosition) ==
  IF bodyPosition = "standing" THEN 730000 ELSE 700000

\* The last factor of hR: 0.7 if (bodyPosition === "sitting"), else 0.73
\* (lines 703-707).
bodyPositionFactor(bodyPosition) ==
  IF bodyPosition = "sitting" THEN 700000 ELSE 730000

\* hR of lines 704 and 706 for the clothing temperature tCl.
RadiativeCoefficient(tCl, tr, bodyPosition) ==
  LET T == Div(tCl + tr, 2 * S) + 273150000
  IN  Mul(Mul(Mul(Mul(4 * S, 950000), sbc6), Cube(Div(T, 100 * S))),
          bodyPositionFactor(bodyPosition))

\* One pass of the clothing-temperature loop up to the limit test (lines 703-716).
ClothingIter(s) ==
  LET hR == RadiativeCoefficient(s.tCl, s.a.tr, s.a.bodyPosition)
      hT == hR + s.hCc
      rA == Div(S, Mul(s.fACl, hT))
      tOp == Div(Mul(hR, s.a.tr) + Mul(s.hCc, s.a.tdb), hT)
      tClNew == Div(Mul(rA, s.tSkin) + Mul(s.rClo, tOp), rA + s.rClo)
  IN  [s EXCEPT !.hR = hR, !.hT = hT, !.rA = rA, !.tOp = tOp,
                !.tcConverged = (Abs(tClNew - s.tCl) <= tolerance),
                !.tCl = tClNew,
                !.nIterations = s.nIterations + 1]

\* Skin blood flow and its clamps (lines 742-748).  kwargs.max_skin_blood_flow
\* is undefined when the key is absent, and mBl > undefined is false.
SkinBloodFlow(cWarm, colds, kwargs) ==
  LET mBl0 == Div(skinBloodFlowNeutral + Mul(cDil, cWarm), S + Mul(cStr, colds))
      mBl1 == IF "max_skin_blood_flow" \in DOMAIN kwargs
              THEN (IF mBl0 > kwargs.max_skin_blood_flow
                    THEN kwargs.max_skin_blood_flow ELSE mBl0)
              ELSE mBl0
  IN  IF mBl1 < 500000 THEN 500000 ELSE mBl1

\* Regulatory sweating and its clamp (lines 749-752).
RegulatorySweating(warmB, warmSk, kwargs) ==
  LET mRsw == Mul(Mul(cSw, warmB), Exp(Div(warmSk, 10700000)))
  IN  IF mRsw > kwargs.max_sweating THEN kwargs.max_sweating ELSE mRsw

\* The wettedness without the two branches that set it to wMax, for comparison
\* with Wettedness.
WettednessUnclipped(eRsw0, eMax, wMax) ==
  LET w0 == 60000 + Mul(940000, Div(eRsw0, eMax))
  IN  [w |-> w0, eRsw |-> eRsw0, eDiff |-> Mul(w0, eMax) - eRsw0]

\* The wettedness with the w > wMax branch only, for comparison with
\* Wettedness.
WettednessCappedOnly(eRsw0, eMax, wMax) ==
  LET w0 == 60000 + Mul(940000, Div(eRsw0, eMax))
      pRsw == Div(wMax, 940000)
  IN  IF w0 > wMax
      THEN [w |-> wMax, eRsw |-> Mul(pRsw, eMax),
            eDiff |-> Mul(Mul(60000, S - pRsw), eMax)]
      ELSE [w |-> w0, eRsw |-> eRsw0, eDiff |-> Mul(w0, eMax) - eRsw0]

\* Skin wettedness and the evaporative losses (lines 760-773).
Wettedness(eRsw0, eMax, wMax) ==
  LET w0 == 60000 + Mul(940000, Div(eRsw0, eMax))
      pRsw == Div(wMax, 940000)
  IN  IF eMax < 0 THEN [w |-> wMax, eRsw |-> 0, eDiff |-> 0]
      ELSE IF w0 > wMax
      THEN [w |-> wMax, eRsw |-> Mul(pRsw, eMax),
            eDiff |-> Mul(Mul(60000, S - pRsw), eMax)]
      ELSE [w |-> w0, eRsw |-> eRsw0, eDiff |-> Mul(w0, eMax) - eRsw0]

\* The fraction with its constant term subtracted, for comparison with alfa.
alfaTermSubtracted(mBl) == Div(745183, mBl + 585417) - 41774

\* alfa = 0.0417737 + 0.7451833 / (mBl + 0.585417) (line 779): the fraction of
\* the body mass in the skin compartment.
alfa(mBl) == 41774 + Div(745183, mBl + 585417)

\* The rest of one pass of the time loop: heat balance, thermoregulatory
\* signals, skin blood flow, sweating, wettedness (lines 723-779).
StepTail(s) ==
  LET kwargs == s.a.kwargs
      qSensible == Div(s.tSkin - s.tOp, s.rA + s.rClo)
      hfCs == Mul(s.tCore - s.tSkin, 5280000 + Mul(1163000, s.mBl))
      sCore == s.m - hfCs - s.qRes - s.cRes - s.a.wme
      sSkin == hfCs - qSensible - s.eSkin
      tcSk == Mul(Mul(970000, s.alfa), bodyWeight)
      tcCr == Mul(Mul(970000, S - s.alfa), bodyWeight)
      dTSk == Div(Div(Mul(sSkin, s.a.bodySurfaceArea), tcSk), 60 * S)
      dTCr == Div(Div(Mul(sCore, s.a.bodySurfaceArea), tcCr), 60 * S)
      tSkin == s.tSkin + dTSk
      tCore == s.tCore + dTCr
      tBody == Mul(s.alfa, tSkin) + Mul(S - s.alfa, tCore)
      skSig == tSkin - tempSkinNeutral
      warmSk == Positive(skSig)
      colds == Positive(-skSig)
      cRegSig == tCore - tempCoreNeutral
      cWarm == Positive(cRegSig)
      cCold == Positive(-cRegSig)
      warmB == Positive(tBody - s.tempBodyNeutral)
      mBl == SkinBloodFlow(cWarm, colds, kwargs)
      eRsw0 == Mul(680000, RegulatorySweating(warmB, warmSk, kwargs))
      rEa == Div(S, Mul(Mul(s.lr, s.fACl), s.hCc))
      rEcl == Div(s.rClo, Mul(s.lr, s.iCl))
      eReq == s.rm - s.qRes - s.cRes - qSensible
      eMax == Div(p_sat_torr(tSkin) - s.a.vaporPressure, rEa + rEcl)
      wet == Wettedness(eRsw0, eMax, s.wMax)
  IN  [s EXCEPT !.qSensible = qSensible, !.tSkin = tSkin, !.tCore = tCore,
                !.tBody = tBody, !.mBl = mBl, !.rEa = rEa, !.rEcl = rEcl,
                !.eReq = eReq, !.eMax = eMax, !.w = wet.w, !.eRsw = wet.eRsw,
                !.eDiff = wet.eDiff, !.eSkin = wet.eRsw + wet.eDiff,
                !.mRsw = Div(wet.eRsw, 680000),
                !.m = s.rm + Mul(Mul(19400000, colds), cCold),
                !.alfa = alfa(mBl)]

\* The heat loss from the skin without the evaporative part, for comparison
\* with SkinHeatLoss.
SkinHeatLossSensibleOnly(qSensible, eSkin) == qSensible

\* const qSkin = qSensible + eSkin (line 782)
SkinHeatLoss(qSensible, eSkin) == qSensible + eSkin

\* After the time loop: the standard-environment coefficients (lines 782-807)
\* and the start of calculate_set (lines 465-468).
AfterLoop(s) ==
  LET a == s.a
      qSkin == SkinHeatLoss(s.qSensible, s.eSkin)
      hRS == s.hR
      hCS0 == WithMetConvection(Mul(3 * S, Pow(s.pressureInAtmospheres, 530000)),
                                a.met, a.kwargs)
      hCS == IF hCS0 < 3 * S THEN 3 * S ELSE hCS0
      hTS == hCS + hRS
      rCloS == Div(1520000, a.met - Div(a.wme, metFactor) + 694400) - 183500
      rClS == Mul(155000, rCloS)
      fAClS == S + Mul(kClo, rCloS)
      fClS == Div(S, S + Mul(Mul(Mul(155000, fAClS), hTS), rCloS))
      iMS == 450000
      iClS == Mul(Mul(iMS, Div(hCS, hTS)),
                  Div(S - fClS, Div(hCS, hTS) - Mul(fClS, iMS)))
      rAS == Div(S, Mul(fAClS, hTS))
      rEaS == Div(S, Mul(Mul(s.lr, fAClS), hCS))
      rEclS == Div(rClS, Mul(s.lr, iClS))
      hDS == Div(S, rAS + rClS)
  IN  [s EXCEPT !.qSkin = qSkin, !.pSSk = p_sat_torr(s.tSkin),
                !.hDS = hDS, !.hES = Div(S, rEaS + rEclS),
                !.old = s.tSkin - Div(qSkin, hDS), !.dx = 100 * S]

\* err1 of both solvers (lines 471-474, 512-515).
SecantErr(x, s, hD, hE) ==
  s.qSkin - Mul(hD, s.tSkin - x)
          - Mul(Mul(s.w, hE), s.pSSk - Mul(500000, p_sat_torr(x)))

\* (err2 - err1) / delta, delta = 0.0001 (lines 476-483, 517-524).  With d the
\* quotient 4030.183 / ((x + 235)(x + delta + 235)), err2 - err1 is
\* delta * (hD + w hE 0.5 p_sat_torr(x) d) up to the second order in delta.
SecantSlope(x, s, hD, hE) ==
  hD + Mul(Mul(Mul(s.w, hE), Mul(500000, p_sat_torr(x))),
           10 * Div(Div(403018300, x + 235000000), x + 100 + 235000000))

\* set = setOld - (delta * err1) / (err2 - err1)
SecantIter(x, s, hD, hE) == x - Div(SecantErr(x, s, hD, hE), SecantSlope(x, s, hD, hE))

\* hD and hE of calculate_et (lines 504-505).
EtHD(s) == Div(S, s.rA + s.rClo)

EtHE(s) == Div(S, s.rEa + s.rEcl)

\* One pass of the while loop of calculate_set (lines 471-485).
SetStep(s) ==
  LET x == SecantIter(s.old, s, s.hDS, s.hES)
  IN  [s EXCEPT !.set = x, !.dx = x - s.old, !.old = x]

\* Entry of calculate_et (lines 504-509).
BeginEt(s) == [s EXCEPT !.old = s.tSkin - Div(s.qSkin, EtHD(s)), !.dx = 100 * S]

\* One pass of the while loop of calculate_et (lines 512-526).
EtStep(s) ==
  LET x == SecantIter(s.old, s, EtHD(s), EtHE(s))
  IN  [s EXCEPT !.et = x, !.dx = x - s.old, !.old = x]

calculate_thermal_sansation(tBody, rm, wMax) ==
  LET tbmL == Mul(Div(194000, 58150000), rm) + 36301000
      tbmH == Mul(Div(347000, 58150000), rm) + 36669000
  IN  IF tBody >= tbmL /\ tBody < tbmH
      THEN Div(Mul(Mul(wMax, 4700000), tBody - tbmL), tbmH - tbmL)
      ELSE IF tBody >= tbmH
      THEN Mul(wMax, 4700000) + Mul(468500, tBody - tbmH)
      ELSE Mul(468500, tBody - tbmL)

calculate_discomfort(eRsw, eComfort, eMax, wMax, eDiff, tSens) ==
  LET disc == Div(Mul(4700000, eRsw - eComfort), Mul(eMax, wMax) - eComfort - eDiff)
  IN  IF disc <= 0 THEN tSens ELSE disc

\* 0.303 * Math.exp(-0.036 * m) + 0.028
PmvGain(m) == Mul(303000, Exp(Mul(-36000, m))) + 28000

calculate_pmv_gagge(m, eReq, eComfort, eDiff) == Mul(PmvGain(m), eReq - eComfort - eDiff)

calculate_pmv_set(m, eComfort, eDiff, hDS, tSkin, set, rm, cRes, qRes) ==
  LET drySet == Mul(hDS, tSkin - set)
      eReqSet == rm - cRes - qRes - drySet
  IN  Mul(PmvGain(m), eReqSet - eComfort - eDiff)

\* The record calculate_two_nodes returns (lines 811-846).
Result(s) ==
  LET tSens == calculate_thermal_sansation(s.tBody, s.rm, s.wMax)
  IN  [set |-> s.set, eSkin |-> s.eSkin, eRsw |-> s.eRsw, eMax |-> s.eMax,
       qSensible |-> s.qSensible, qSkin |-> s.qSkin, qRes |-> s.qRes,
       tCore |-> s.tCore, tSkin |-> s.tSkin, mBl |-> s.mBl, mRsw |-> s.mRsw,
       w |-> s.w, wMax |-> s.wMax, et |-> s.et,
       pmvGagge |-> calculate_pmv_gagge(s.m, s.eReq, s.eComfort, s.eDiff),
       pmvSet |-> calculate_pmv_set(s.m, s.eComfort, s.eDiff, s.hDS, s.tSkin,
                                    s.set, s.rm, s.cRes, s.qRes),
       disc |-> calculate_discomfort(s.eRsw, s.eComfort, s.eMax, s.wMax, s.eDiff, tSens),
       tSens |-> tSens]

RECURSIVE Pow10(_)
Pow10(n) == IF n = 0 THEN 1 ELSE 10 * Pow10(n - 1)

\* round(number, precision): Math.round(number * smudge) / smudge, halves upwards.
round(number, precision) ==
  LET unit == S \div Pow10(precision)
  IN  ((number + unit \div 2) \div unit) * unit

\* The object two_nodes returns when joint_kwargs.round (lines 144-163).
Rounded(result) ==
  [e_skin |-> round(result.eSkin, 1), e_rsw |-> round(result.eRsw, 1),
   e_max |-> round(result.eMax, 1), q_sensible |-> round(result.qSensible, 1),
   q_skin |-> round(result.qSkin, 1), q_res |-> round(result.qRes, 1),
   t_core |-> round(result.tCore, 1), t_skin |-> round(result.tSkin, 1),
   m_bl |-> round(result.mBl, 1), m_rsw |-> round(result.mRsw, 1),
   w |-> round(result.w, 1), w_max |-> round(result.wMax, 1),
   set |-> round(result.set, 1), et |-> round(result.et, 1),
   pmv_gagge |-> round(result.pmvGagge, 1), pmv_set |-> round(result.pmvSet, 1),
   disc |-> round(result.disc, 1), t_sens |-> round(result.tSens, 1)]

\* One pass of the clothing loop with its limit test (lines 703-720): the test
\* comes after tcConverged is set, so the pass that converges can also throw.
ClothingPass(s) ==
  LET t == ClothingIter(s)
  IN  IF t.nIterations > iterationLimit
      THEN [t EXCEPT !.error = "Max iterations exceeded"]
      ELSE t

\* ------------------------------------------------------------------------
\* Inputs
\* ------------------------------------------------------------------------
\* The arguments of one call of two_nodes; p_atmospheric in whole pascals.
Args(tdb, tr, v, rh, met, clo, wme, bsa, patm, pos, msbf, kwargs) ==
  [tdb |-> tdb, tr |-> tr, v |-> v, rh |-> rh, met |-> met, clo |-> clo,
   wme |-> wme, body_surface_area |-> bsa, p_atmospheric |-> patm,
   body_position |-> pos, max_skin_blood_flow |-> msbf, kwargs |-> kwargs]

\* A call that leaves every optional parameter at its default (lines 112-117).
Defaults(tdb, tr, v, rh, met, clo) ==
  Args(tdb, tr, v, rh, met, clo, 0, 1825800, 101325, "standing", 90 * S, << >>)

Documented == Defaults(25 * S, 25 * S, 300000, 50 * S, 1200000, 500000)

Hot == Defaults(40 * S, 40 * S, 100000, 60 * S, 2 * S, 0)

Environments ==
  { Documented,
    Defaults(30 * S, 35 * S, 500000, 60 * S, 1500000, 300000),
    Hot,                                                         \* unclothed, met 2
    Defaults(10 * S, 10 * S, S, 30 * S, S, 1500000),             \* cold, rm = 58.2
    Defaults(25 * S, 25 * S, 300000, 50 * S, 800000, 500000),    \* rm < 58.2
    Defaults(25 * S, 25 * S, 50000, 50 * S, 1200000, 500000),    \* v < 0.1
    Defaults(40 * S, 40 * S, 100000, 100 * S, 1200000, 500000) } \* saturated air

\* kwargs objects a caller passes; << >> is {}.
RoundKwargs == { << >>, [round |-> FALSE] }

OptionKwargs ==
  { [w_max |-> <<300000>>], [w_max |-> <<0>>], [calculate_ce |-> TRUE],
    [max_sweating |-> 5 * S], [max_skin_blood_flow |-> 10 * S] }

HotKwargs == { [max_skin_blood_flow |-> 80 * S], [max_sweating |-> 100 * S] }

\* Heavy work in warm air, where the wettedness reaches wMax while sweating
\* is at its limit: with max_sweating 200, and with the default 500.
Sweating ==
  { [Defaults(35 * S, 35 * S, 100000, 50 * S, 3 * S, 500000)
       EXCEPT !.kwargs = [max_sweating |-> 200 * S]],
    Defaults(40 * S, 40 * S, 2 * S, 30 * S, 4 * S, 0) }

\* The documented environment in still air, v = 0.1, and the calls a caller
\* compares with it: with a lower air speed, and with another body position.
StillAir == Defaults(25 * S, 25 * S, 100000, 50 * S, 1200000, 500000)

StillAirCalls == { [StillAir EXCEPT !.kwargs = k] : k \in RoundKwargs }

Varied(c) ==
  { [c EXCEPT !.v = v] : v \in {50000, 0, -S} }
    \cup { [c EXCEPT !.body_position = p] : p \in {"sitting", "seated", "lying"} }

\* Mean radiant temperatures at which the clothing loop is slowest: with
\* clo = 20 at 1000 Pa it needs 151 passes at -262.6 and more at -262.7.
SlowClothing ==
  { Args(25 * S, tr, 100000, 0, 1200000, 20 * S, 0, 1825800, 1000, "standing",
         90 * S, [calculate_ce |-> TRUE]) : tr \in { -262600000, -262700000 } }

ScalarCalls ==
  { [e EXCEPT !.kwargs = k] : e \in Environments, k \in RoundKwargs }
    \cup { [Documented EXCEPT !.kwargs = k] : k \in OptionKwargs }
    \cup { [Hot EXCEPT !.kwargs = k] : k \in HotKwargs }
    \cup { [Hot EXCEPT !.max_skin_blood_flow = 80 * S],
           [Documented EXCEPT !.body_position = "sitting"],
           [Documented EXCEPT !.wme = 200000, !.met = 1500000],
           [Documented EXCEPT !.body_surface_area = 2 * S] }
    \cup SlowClothing \cup Sweating \cup StillAirCalls

\* Calls of two_nodes that a caller makes twice, and the calls made between
\* the two: with other options, one that throws, and one of two_nodes_array.
RepeatedCalls ==
  { Documented, Hot, [Documented EXCEPT !.kwargs = [calculate_ce |-> TRUE]] }

BetweenCalls ==
  { [Documented EXCEPT !.kwargs = [round |-> FALSE]],
    [Documented EXCEPT !.kwargs = [w_max |-> <<300000>>]],
    [Hot EXCEPT !.kwargs = [max_sweating |-> 100 * S]],
    Defaults(25 * S, 25 * S, 300000, 50 * S, 800000, 500000) }

\* Elements of the arrays passed to two_nodes_array: the two rows of the call
\* at lines 349-363, the second with its own optional parameters.
ElementA == Documented

ElementB ==
  Args(30 * S, 35 * S, 500000, 60 * S, 1500000, 300000,
       100000, 2 * S, 90000, "sitting", 20 * S, << >>)

Elements == { ElementA, ElementB }

MaxLen == 2

ElementSeqs == UNION { [1..n -> Elements] : n \in 1..MaxLen }

Column(es, f) == [i \in 1..Len(es) |-> es[i][f]]

\* An optional parameter as the caller passes it: one value ("short"), one
\* value per element ("full"), or one value more than that ("long").
Optional(es, shape, f) ==
  IF shape = "short" THEN <<es[1][f]>>
  ELSE IF shape = "long" THEN Column(es, f) \o <<es[1][f]>>
  ELSE Column(es, f)

ArrayArgs(es, shape, kwargs) ==
  [tdbArray |-> Column(es, "tdb"), trArray |-> Column(es, "tr"),
   vArray |-> Column(es, "v"), rhArray |-> Column(es, "rh"),
   metArray |-> Column(es, "met"), cloArray |-> Column(es, "clo"),
   wme |-> Optional(es, shape, "wme"),
   body_surface_area |-> Optional(es, shape, "body_surface_area"),
   p_atmospheric |-> Optional(es, shape, "p_atmospheric"),
   body_position |-> Optional(es, shape, "body_position"),
   max_skin_blood_flow |-> Optional(es, shape, "max_skin_blood_flow"),
   kwargs |-> kwargs]

Shapes == { "short", "full", "long" }

ArrayCalls ==
  { ArrayArgs(es, shape, << >>) : es \in ElementSeqs, shape \in Shapes }
    \cup { ArrayArgs(es, "full", [round |-> FALSE]) : es \in ElementSeqs }

\* The inputs of index i (from 1) of an array call, as a call of two_nodes:
\* an optional parameter shorter than tdbArray counts with its first element.
IndexCall(c, i) ==
  LET at(p) == IF Len(p) < Len(c.tdbArray) THEN p[1] ELSE p[i]
  IN  Args(c.tdbArray[i], c.trArray[i], c.vArray[i], c.rhArray[i],
           c.metArray[i], c.cloArray[i], at(c.wme), at(c.body_surface_area),
           at(c.p_atmospheric), at(c.body_position), at(c.max_skin_blood_flow),
           c.kwargs)

\* c and d are array calls of one length and one kwargs whose optional
\* parameters are full length, and they differ at index j only.
DifferAt(c, d, j) ==
  /\ c.kwargs = d.kwargs
  /\ Len(c.tdbArray) = Len(d.tdbArray)
  /\ \A f \in DOMAIN c \ {"kwargs"} :
       /\ Len(c[f]) = Len(c.tdbArray)
       /\ Len(d[f]) = Len(c.tdbArray)
       /\ \A i \in 1..Len(c.tdbArray) : i # j => c[f][i] = d[f][i]
  /\ c # d

\* The argument list two_nodes hands to calculate_two_nodes (lines 126-141):
\* max_skin_blood_flow is not among the arguments.
CalculateArgs(c) ==
  [tdb |-> c.tdb, tr |-> c.tr, v |-> c.v, met |-> c.met, clo |-> c.clo,
   vaporPressure |-> cal_vapor_pressure(c.tdb, c.rh), wme |-> c.wme,
   bodySurfaceArea |-> c.body_surface_area, pAtmospheric |-> c.p_atmospheric,
   bodyPosition |-> c.body_position, kwargs |-> joint_kwargs(c.kwargs)]

\* A fill that repeats the first element whatever the length, for comparison
\* with fill_array.
fill_array_always(newArray, tdbArray) ==
  [i \in 1..Len(tdbArray) |-> newArray[1]]

\* fill_array(newArray, tdbArray)
fill_array(newArray, tdbArray) ==
  IF Len(newArray) < Len(tdbArray)
  THEN [i \in 1..Len(tdbArray) |-> newArray[1]]
  ELSE newArray

\* The locals of two_nodes_array before its for loop (lines 234-269); out holds
\* the 18 arrays results are pushed to, keyed as the fields of a result.
Quantities ==
  { "set", "eSkin", "eRsw", "eMax", "qSensible", "qSkin", "qRes", "tCore", "tSkin",
    "mBl", "mRsw", "w", "wMax", "et", "pmvGagge", "pmvSet", "disc", "tSens" }

\* Vapor pressures all taken at the first dry-bulb temperature, for comparison
\* with vaporPressureArray.
vaporPressureArrayFirst(tdbArray, rhArray) ==
  [i \in 1..Len(rhArray) |-> cal_vapor_pressure(tdbArray[1], rhArray[i])]

\* rhArray.map((_rh, index) => cal_vapor_pressure(tdbArray[index], _rh))
vaporPressureArray(tdbArray, rhArray) ==
  [i \in 1..Len(rhArray) |-> cal_vapor_pressure(tdbArray[i], rhArray[i])]

ArrayLocals(c) ==
  [joint_kwargs |-> joint_kwargs(c.kwargs),
   vaporPressureArray |-> vaporPressureArray(c.tdbArray, c.rhArray),
   wmeArray |-> fill_array(c.wme, c.tdbArray),
   bodySurfaceArray |-> fill_array(c.body_surface_area, c.tdbArray),
   pAtmArray |-> fill_array(c.p_atmospheric, c.tdbArray),
   bodyPositionArray |-> fill_array(c.body_position, c.tdbArray),
   maxSkinBloodFlowArray |-> fill_array(c.max_skin_blood_flow, c.tdbArray),
   out |-> [q \in Quantities |-> << >>],
   index |-> 0]

\* The argument list of the call at lines 272-284; index counts from 0.
LoopArgs(c, l) ==
  LET i == l.index + 1
  IN  [tdb |-> c.tdbArray[i], tr |-> c.trArray[i], v |-> c.vArray[i],
       met |-> c.metArray[i], clo |-> c.cloArray[i],
       vaporPressure |-> l.vaporPressureArray[i], wme |-> l.wmeArray[i],
       bodySurfaceArea |-> l.bodySurfaceArray[i], pAtmospheric |-> l.pAtmArray[i],
       bodyPosition |-> l.bodyPositionArray[i], kwargs |-> l.joint_kwargs]

\* Pushes that put each value at the front of its array, for comparison with
\* Push.
PushFront(out, result) ==
  [q \in Quantities |-> << result[q] >> \o out[q]]

\* The 18 pushes of one pass of the for loop (lines 285-302).
Push(out, result) ==
  [q \in Quantities |-> Append(out[q], result[q])]

roundArray(array, precision) == [i \in 1..Len(array) |-> round(array[i], precision)]

\* The key under which each quantity is returned (lines 143-165, 305-347).
ReturnKey ==
  [set |-> "set", eSkin |-> "e_skin", eRsw |-> "e_rsw", eMax |-> "e_max",
   qSensible |-> "q_sensible", qSkin |-> "q_skin", qRes |-> "q_res",
   tCore |-> "t_core", tSkin |-> "t_skin", mBl |-> "m_bl", mRsw |-> "m_rsw",
   w |-> "w", wMax |-> "w_max", et |-> "et", pmvGagge |-> "pmv_gagge",
   pmvSet |-> "pmv_set", disc |-> "disc", tSens |-> "t_sens"]

\* The object two_nodes_array returns (lines 305-347).
ArrayResult(l) ==
  LET col(q) == IF l.joint_kwargs.round THEN roundArray(l.out[q], 1) ELSE l.out[q]
  IN  [e_skin |-> col("eSkin"), e_rsw |-> col("eRsw"), e_max |-> col("eMax"),
       q_sensible |-> col("qSensible"), q_skin |-> col("qSkin"), q_res |-> col("qRes"),
       t_core |-> col("tCore"), t_skin |-> col("tSkin"), m_bl |-> col("mBl"),
       m_rsw |-> col("mRsw"), w |-> col("w"), w_max |-> col("wMax"),
       set |-> col("set"), et |-> col("et"), pmv_gagge |-> col("pmvGagge"),
       pmv_set |-> col("pmvSet"), disc |-> col("disc"), t_sens |-> col("tSens")]

\* ------------------------------------------------------------------------
\* utilities.js: the compliance validators
\* ------------------------------------------------------------------------
\* An object passed as kwargs is the sequence of its entries in insertion
\* order, [key, value]; a value is << >> for undefined and << x >> for the
\* number x.  A call returns [error, value]: error is "" or the message thrown.
Entry(key, value) == [key |-> key, value |-> value]

Defined(e) == Len(e.value) > 0

Returns(value) == [error |-> "", value |-> value]

Throws(message) == [error |-> message]

\* The warnings pushed in the loop over the entries, in order: seqs[i] is the
\* sequence of warnings entry i adds.
RECURSIVE Flatten(_)
Flatten(seqs) ==
  IF Len(seqs) = 0 THEN << >> ELSE Head(seqs) \o Flatten(Tail(seqs))

\* _ankle_draft_compliance (lines 414-425)
AnkleDraftWarn(e) ==
  LET value == e.value[1]
  IN  (IF e.key = "met" /\ value > 1300000
       THEN << "The ankle draft model is only valid for met <= 1.3" >> ELSE << >>)
      \o (IF e.key = "clo" /\ value > 700000
          THEN << "The ankle draft model is only valid for clo <= 0.7" >> ELSE << >>)

_ankle_draft_compliance(kwargs) ==
  Returns(Flatten([i \in 1..Len(kwargs) |->
    IF Defined(kwargs[i]) THEN AnkleDraftWarn(kwargs[i]) ELSE << >>]))

\* _ashrae_compliance (lines 432-475): the switch on the key of one entry.
AshraeWarn(e) ==
  LET value == e.value[1]
  IN  IF e.key \in {"tdb", "tr"}
      THEN (IF value > 40 * S \/ value < 10 * S
            THEN << IF e.key = "tdb"
                    THEN "ASHRAE dry-bulb temperature application limits between 10 and 40 C"
                    ELSE "ASHRAE mean radiant temperature application limits between 10 and 40 C" >>
            ELSE << >>)
      ELSE IF e.key \in {"v", "vr"}
      THEN (IF value > 2 * S \/ value < 0
            THEN << "ASHRAE air speed applicability limits between 0 and 2 m/s" >>
            ELSE << >>)
      ELSE IF e.key = "met"
      THEN (IF value > 4 * S \/ value < 1 * S
            THEN << "ASHRAE met applicability limits between 1.0 and 4.0 met" >>
            ELSE << >>)
      ELSE IF e.key = "clo"
      THEN (IF value > 1500000 \/ value < 0
            THEN << "ASHRAE clo applicability limits between 0.0 and 1.5 clo" >>
            ELSE << >>)
      ELSE << >>

\* case "v_limited": if (value > 0.2) throw (lines 466-471)
AshraeThrows(e) == Defined(e) /\ e.key = "v_limited" /\ e.value[1] > 200000

_ashrae_compliance(kwargs) ==
  IF \E i \in 1..Len(kwargs) : AshraeThrows(kwargs[i])
  THEN Throws("This equation is only applicable for air speed lower than 0.2 m/s")
  ELSE Returns(Flatten([i \in 1..Len(kwargs) |->
         IF Defined(kwargs[i]) THEN AshraeWarn(kwargs[i]) ELSE << >>]))

\* _iso_compliance (lines 482-503)
IsoWarn(e) ==
  LET value == e.value[1]
      warn(cond, text) == IF cond THEN << text >> ELSE << >>
  IN  warn(e.key = "tdb" /\ (value > 30 * S \/ value < 10 * S),
           "ISO air temperature applicability limits between 10 and 30 C")
      \o warn(e.key = "tr" /\ (value > 40 * S \/ value < 10 * S),
              "ISO mean radiant temperature applicability limits between 10 and 40 C")
      \o warn(e.key = "v" \/ (e.key = "vr" /\ (value > 1 * S \/ value < 0)),
              "ISO air speed applicability limits between 0 and 1 m/s")
      \o warn(e.key = "met" /\ (value > 4 * S \/ value < 0),
              "ISO met applicability limits between 0.8 and 4.0 met")
      \o warn(e.key = "clo" /\ (value > 2 * S \/ value < 0),
              "ISO clo applicability limits between 0.0 and 2 clo")

_iso_compliance(kwargs) ==
  Returns(Flatten([i \in 1..Len(kwargs) |->
    IF Defined(kwargs[i]) THEN IsoWarn(kwargs[i]) ELSE << >>]))

\* kwargs[key]: the value of the entry with that key, << >> when there is none.
Get(kwargs, key) ==
  IF \E i \in 1..Len(kwargs) : kwargs[i].key = key
  THEN kwargs[CHOOSE i \in 1..Len(kwargs) : kwargs[i].key = key].value
  ELSE << >>

\* p_sat(tdb) / 1000: the saturation vapor pressure in kPa.
p_sat_kPa(tdb) == Mul(p_sat_torr(tdb), 133322)

\* _iso7933_compliance (lines 510-556)
_iso7933_compliance(kwargs) ==
  IF \E k \in {"tdb", "rh", "tr", "v", "met", "clo"} : Get(kwargs, k) = << >>
  THEN Throws("Missing arguments for ISO7933 compliance check")
  ELSE
    LET tdb == Get(kwargs, "tdb")[1]
        tr == Get(kwargs, "tr")[1]
        v == Get(kwargs, "v")[1]
        met == Get(kwargs, "met")[1]
        clo == Get(kwargs, "clo")[1]
        p_a == DivInt(Mul(p_sat_kPa(tdb), Get(kwargs, "rh")[1]), 100)
        rh_max == Div(450 * S, p_sat_kPa(tdb))
        warn(cond, text) == IF cond THEN << text >> ELSE << >>
    IN  Returns(
          warn(tdb > 50 * S \/ tdb < 15 * S,
               "ISO 7933:2004 air temperature applicability limits between 15 and 50 C")
          \o warn(p_a > rh_max \/ p_a < 0,
                  "ISO 7933:2004 rh applicability limits between 0 and rh_max %")
          \o warn(tr - tdb > 60 * S \/ tr - tdb < 0,
                  "ISO 7933:2004 t_r - t_db applicability limits between 0 and 60 C")
          \o warn(v > 3 * S \/ v < 0,
                  "ISO 7933:2004 air speed applicability limits between 0 and 3 m/s")
          \o warn(met > 450 * S \/ met < 100 * S,
                  "ISO 7933:2004 met applicability limits between 100 and 450 met")
          \o warn(clo > 1 * S \/ clo < 100000,
                  "ISO 7933:2004 clo applicability limits between 0.1 and 1 clo"))

\* check_standard_compliance (lines 305-318)
check_standard_compliance(standard, kwargs) ==
  CASE standard = "ANKLE_DRAFT" -> _ankle_draft_compliance(kwargs)
    [] standard = "ASHRAE" -> _ashrae_compliance(kwargs)
    [] standard = "ISO" -> _iso_compliance(kwargs)
    [] standard = "ISO7933" -> _iso7933_compliance(kwargs)
    [] OTHER -> Throws("Unknown standard")

\* An element of an array the array validator returns: << x >> for the number
\* x, << >> for NaN.
NaN == << >>

isNaN(n) == n = NaN

\* valid_range (lines 925-928): range is << >> for undefined.
valid_range(range, min, max) ==
  [i \in 1..Len(range) |->
     IF range[i] >= min /\ range[i] <= max THEN << range[i] >> ELSE NaN]

RECURSIVE SqrtIter(_, _)
SqrtIter(n, r) ==
  LET next == (r + n \div r) \div 2
  IN  IF next >= r THEN r ELSE SqrtIter(n, next)

\* Math.sqrt, to three decimal places
Sqrt(x) == IF x <= 0 THEN 0 ELSE 1000 * SqrtIter(x, x)

\* t_o_array(tdb, tr, v): the operative temperature of each index, NaN where
\* tdb or tr is.
t_o_array(tdb, tr, v) ==
  [i \in 1..Len(tdb) |->
     IF isNaN(tdb[i]) \/ isNaN(tr[i]) \/ i > Len(v) THEN NaN
     ELSE LET root == Sqrt(10 * v[i])
          IN  << Div(Mul(tdb[i][1], root) + tr[i][1], S + root) >>]

\* The air speed elements of the "ASHRAE" case when kwargs.airspeed_control is
\* false (lines 355-381).  A comparison with undefined or NaN is false.
WithoutAirspeedControl(kwargs, tdb, tr, v) ==
  LET original_v == IF "v" \in DOMAIN kwargs THEN kwargs.v ELSE << >>
      met_aux == IF "met" \in DOMAIN kwargs THEN kwargs.met ELSE << >>
      clo_aux == IF "clo" \in DOMAIN kwargs THEN kwargs.clo ELSE << >>
      light(i) == /\ i <= Len(clo_aux) /\ clo_aux[i] < 700000
                  /\ i <= Len(met_aux) /\ met_aux[i] < 1300000
      v1 == [i \in 1..Len(v) |->
               IF original_v[i] > 800000 /\ light(i) THEN NaN ELSE v[i]]
      to == t_o_array(tdb, tr, original_v)
      limit(x) == 50490000 - Mul(4404700, x) + Mul(Mul(96425, x), x)
  IN  [i \in 1..Len(v1) |->
         IF i > Len(to) \/ isNaN(to[i]) THEN v1[i]
         ELSE IF \/ /\ 23 * S < to[i][1] /\ to[i][1] < 25500000
                    /\ original_v[i] > limit(to[i][1]) /\ light(i)
                 \/ /\ to[i][1] <= 23 * S
                    /\ original_v[i] > 200000 /\ light(i)
         THEN NaN ELSE v1[i]]

\* The value of a call that runs off the end of its function body.
undefined == << >>

\* check_standard_compliance_array (lines 340-407).  kwargs is a record of
\* arrays and airspeed_control; a key it lacks is undefined.  A standard that
\* is no case of the switch falls out of it: the function returns undefined.
check_standard_compliance_array(standard, kwargs0) ==
  LET kwargs == IF "airspeed_control" \in DOMAIN kwargs0 THEN kwargs0
                ELSE [k \in DOMAIN kwargs0 \cup {"airspeed_control"} |->
                        IF k = "airspeed_control" THEN TRUE ELSE kwargs0[k]]
      arg(k) == IF k \in DOMAIN kwargs THEN kwargs[k] ELSE << >>
  IN  CASE standard \in {"ISO7933", "ANKLE_DRAFT"} -> Throws("Unsupported standard")
        [] standard = "ASHRAE" ->
             LET tdb == valid_range(arg("tdb"), 10 * S, 40 * S)
                 tr == valid_range(arg("tr"), 10 * S, 40 * S)
                 v0 == valid_range(arg("v"), 0, 2 * S)
                 v == IF kwargs.airspeed_control THEN v0
                      ELSE WithoutAirspeedControl(kwargs, tdb, tr, v0)
             IN  IF "met" \in DOMAIN kwargs
                 THEN Returns([tdb |-> tdb, tr |-> tr, v |-> v,
                               met |-> valid_range(arg("met"), 1 * S, 4 * S),
                               clo |-> valid_range(arg("clo"), 0, 1500000)])
                 ELSE Returns([tdb |-> tdb, tr |-> tr, v |-> v])
        [] standard = "FAN_HEATWAVES" ->
             Returns([tdb |-> valid_range(arg("tdb"), 20 * S, 50 * S),
                      tr |-> valid_range(arg("tr"), 20 * S, 50 * S),
                      v |-> valid_range(arg("v"), 100000, 4500000),
                      rh |-> valid_range(arg("rh"), 0, 100 * S),
                      met |-> valid_range(arg("met"), 700000, 2 * S),
                      clo |-> valid_range(arg("clo"), 0, 1 * S)])
        [] standard = "ISO" ->
             Returns([tdb |-> valid_range(arg("tdb"), 10 * S, 30 * S),
                      tr |-> valid_range(arg("tr"), 10 * S, 40 * S),
                      v |-> valid_range(arg("v"), 0, 1 * S),
                      met |-> valid_range(arg("met"), 800000, 4 * S),
                      clo |-> valid_range(arg("clo"), 0, 2 * S)])
        [] OTHER -> Returns(undefined)

\* Standard names a caller passes: the six the two validators have cases for
\* and two they have none for.
Standards ==
  { "ANKLE_DRAFT", "ASHRAE", "ISO", "ISO7933", "FAN_HEATWAVES", "ASHRAE55", "iso" }

\* kwargs objects passed to check_standard_compliance: all values within every
\* limit; all outside; with an undefined value; with met 0.5; the six ISO 7933
\* arguments; v_limited above, at and below 0.2.
Entries(tdb, tr, speedKey, v, met, clo) ==
  << Entry("tdb", tdb), Entry("tr", tr), Entry(speedKey, v),
     Entry("met", met), Entry("clo", clo) >>

ComplianceKwargs ==
  { Entries(<< 25 * S >>, << 25 * S >>, "vr", << 100000 >>, << 1200000 >>, << 500000 >>),
    Entries(<< 45 * S >>, << 5 * S >>, "vr", << 3 * S >>, << 5 * S >>, << 3 * S >>),
    Entries(<< 25 * S >>, << >>, "v", << 100000 >>, << 1200000 >>, << 500000 >>),
    Entries(<< 25 * S >>, << 25 * S >>, "vr", << 500000 >>, << 500000 >>, << 500000 >>),
    << Entry("tdb", << 30 * S >>), Entry("rh", << 50 * S >>), Entry("tr", << 35 * S >>),
       Entry("v", << 300000 >>), Entry("met", << 150 * S >>), Entry("clo", << 500000 >>) >>,
    << Entry("tdb", << 25 * S >>), Entry("v_limited", << 300000 >>) >>,
    << Entry("tdb", << 45 * S >>), Entry("v_limited", << 200000 >>) >>,
    << Entry("v_limited", << 100000 >>), Entry("met", << 5 * S >>) >> }

\* kwargs objects passed to check_standard_compliance_array: two indices, the
\* second outside the limits; without met and clo; without airspeed control.
ComplianceKwargsArray ==
  LET full == [tdb |-> << 25 * S, 45 * S >>, tr |-> << 25 * S, 5 * S >>,
               v |-> << 100000, 3 * S >>, met |-> << 1200000, 5 * S >>,
               clo |-> << 500000, 3 * S >>]
      fast == [tdb |-> << 22 * S, 24 * S >>, tr |-> << 22 * S, 25 * S >>,
               v |-> << 900000, 500000 >>, met |-> << 1200000, 1200000 >>,
               clo |-> << 500000, 500000 >>, airspeed_control |-> FALSE]
  IN  { full, fast,
        [tdb |-> full.tdb, tr |-> full.tr, v |-> full.v],
        [fast EXCEPT !.airspeed_control = TRUE],
        [fast EXCEPT !.v = << 300000, 100000 >>] }

\* ------------------------------------------------------------------------
\* utilities.js: units; set_tmp.js: set_tmp and set_tmp_array
\* ------------------------------------------------------------------------
\* _temp_ip_to_si, _temp_si_to_ip, _vel_ip_to_si, _area_ip_to_si,
\* _pressure_ip_to_si (the pressure in atm scaled by S, the result in Pa)
_temp_ip_to_si(temp) == DivInt((temp - 32 * S) * 5, 9)

_temp_si_to_ip(temp) == DivInt(temp * 9, 5) + 32 * S

_vel_ip_to_si(vel) == Div(vel, 3281000)

_area_ip_to_si(area) == Div(area, 10764000)

_pressure_ip_to_si(pressure) == Mul(pressure, 101325)

\* The arguments of set_tmp: an optional one is << >> for undefined.
SetTmpArgs(tdb, tr, v, rh, met, clo, units, limit_inputs, kwargs) ==
  [tdb |-> tdb, tr |-> tr, v |-> v, rh |-> rh, met |-> met, clo |-> clo,
   wme |-> 0, body_surface_area |-> << >>, p_atm |-> << >>,
   body_position |-> "standing", units |-> units,
   limit_inputs |-> limit_inputs, kwargs |-> kwargs]

\* Object.assign(defaults_kwargs, kwargs) of set_tmp and set_tmp_array
set_tmp_kwargs(kwargs) ==
  [k \in {"calculate_ce", "round"} \cup DOMAIN kwargs |->
     IF k \in DOMAIN kwargs THEN kwargs[k]
     ELSE IF k = "round" THEN TRUE ELSE FALSE]

\* The arguments set_tmp passes to two_nodes (lines 81-116): defaults by
\* units, conversion from IP, max_skin_blood_flow undefined (so its default),
\* kwargs { round: false, calculate_ce }.  p_atm in SI is in Pa, in IP in atm
\* scaled by S.
SetTmpInner(o) ==
  LET area == IF o.body_surface_area = << >>
              THEN (IF o.units = "SI" THEN 1825800 ELSE 19650000)
              ELSE o.body_surface_area[1]
      p_atm == IF o.p_atm = << >>
               THEN (IF o.units = "SI" THEN 101325 ELSE S)
               ELSE o.p_atm[1]
      ip == o.units = "IP"
  IN  Args(IF ip THEN _temp_ip_to_si(o.tdb) ELSE o.tdb,
           IF ip THEN _temp_ip_to_si(o.tr) ELSE o.tr,
           IF ip THEN _vel_ip_to_si(o.v) ELSE o.v,
           o.rh, o.met, o.clo, o.wme,
           IF ip THEN _area_ip_to_si(area) ELSE area,
           IF ip THEN _pressure_ip_to_si(p_atm) ELSE p_atm,
           o.body_position, 90 * S,
           [round |-> FALSE, calculate_ce |-> set_tmp_kwargs(o.kwargs).calculate_ce])

\* What set_tmp does with the set two_nodes returned (lines 118-151); c is
\* the arguments it passed to two_nodes.  The value of set is << x >> or NaN.
SetTmpResult(o, c, set) ==
  LET converted == IF o.units = "IP" THEN _temp_si_to_ip(set) ELSE set
      valid == check_standard_compliance_array("ASHRAE",
                 [tdb |-> << c.tdb >>, tr |-> << c.tr >>, v |-> << c.v >>,
                  met |-> << c.met >>, clo |-> << c.clo >>]).value
      limited == IF o.limit_inputs
                    /\ (\/ isNaN(valid.tdb[1]) \/ isNaN(valid.tr[1])
                        \/ isNaN(valid.v[1]) \/ isNaN(valid.met[1])
                        \/ isNaN(valid.clo[1]))
                 THEN NaN ELSE << converted >>
  IN  [set |-> IF set_tmp_kwargs(o.kwargs).round /\ ~isNaN(limited)
               THEN << round(limited[1], 1) >> ELSE limited]

\* Calls of set_tmp: the documented one; inputs outside the ASHRAE limits in
\* tdb, tr, v, met and clo, one at a time; without limit_inputs; without
\* rounding; in IP units.
SetTmpDocumented ==
  SetTmpArgs(25 * S, 25 * S, 100000, 50 * S, 1200000, 500000, "SI", TRUE, << >>)

SetTmpCalls ==
  { SetTmpDocumented,
    [SetTmpDocumented EXCEPT !.tdb = 41 * S],
    [SetTmpDocumented EXCEPT !.tr = 9 * S],
    [SetTmpDocumented EXCEPT !.v = 2500000],
    [SetTmpDocumented EXCEPT !.met = 800000],
    [SetTmpDocumented EXCEPT !.clo = 2 * S],
    [SetTmpDocumented EXCEPT !.v = 2500000, !.limit_inputs = FALSE],
    [SetTmpDocumented EXCEPT !.kwargs = [round |-> FALSE]],
    SetTmpArgs(77 * S, 77 * S, 328100, 50 * S, 1200000, 500000, "IP", TRUE, << >>),
    SetTmpArgs(110 * S, 77 * S, 328100, 50 * S, 1200000, 500000, "IP", TRUE, << >>) }

\* The arguments set_tmp_array passes to two_nodes_array (lines 219-265); o
\* lacks the optional arrays the caller left undefined.
SetTmpArrayInner(o) ==
  LET n == Len(o.tdbArray)
      fill(k, x) == IF k \in DOMAIN o THEN o[k] ELSE [i \in 1..n |-> x]
      ip == o.units = "IP"
      map(array, f(_)) == [i \in 1..Len(array) |-> f(array[i])]
      area == fill("bodySurfaceArray", IF o.units = "SI" THEN 1825800 ELSE 19650000)
      p_atm == fill("pAtmArray", IF o.units = "SI" THEN 101325 ELSE S)
  IN  [tdbArray |-> IF ip THEN map(o.tdbArray, _temp_ip_to_si) ELSE o.tdbArray,
       trArray |-> IF ip THEN map(o.trArray, _temp_ip_to_si) ELSE o.trArray,
       vArray |-> IF ip THEN map(o.vArray, _vel_ip_to_si) ELSE o.vArray,
       rhArray |-> o.rhArray, metArray |-> o.metArray, cloArray |-> o.cloArray,
       wme |-> fill("wmeArray", 0),
       body_surface_area |-> IF ip THEN map(area, _area_ip_to_si) ELSE area,
       p_atmospheric |-> IF ip THEN map(p_atm, _pressure_ip_to_si) ELSE p_atm,
       body_position |-> fill("bodyPositionArray", "standing"),
       max_skin_blood_flow |-> << 90 * S >>,
       kwargs |-> [round |-> FALSE,
                   calculate_ce |-> set_tmp_kwargs(o.kwargs).calculate_ce]]

\* What set_tmp_array does with the set array two_nodes_array returned
\* (lines 267-307); c is the arguments it passed to two_nodes_array.
SetTmpArrayResult(o, c, setArray) ==
  LET valid == check_standard_compliance_array("ASHRAE",
                 [tdb |-> c.tdbArray, tr |-> c.trArray, v |-> c.vArray,
                  met |-> c.metArray, clo |-> c.cloArray]).value
      limited == [i \in 1..Len(setArray) |->
                    IF o.limit_inputs /\ i <= Len(c.tdbArray)
                       /\ (\/ isNaN(valid.tdb[i]) \/ isNaN(valid.tr[i])
                           \/ isNaN(valid.v[i]) \/ isNaN(valid.met[i])
                           \/ isNaN(valid.clo[i]))
                    THEN NaN
                    ELSE << IF o.units = "IP" THEN _temp_si_to_ip(setArray[i])
                            ELSE setArray[i] >>]
  IN  IF set_tmp_kwargs(o.kwargs).round
      THEN [i \in 1..Len(limited) |->
              IF isNaN(limited[i]) THEN NaN ELSE << round(limited[i][1], 1) >>]
      ELSE limited

\* Calls of set_tmp_array: the second index outside the limits in tdb; the
\* second index with met below 1; one index without rounding.
SetTmpArrayArgs(tdbArray, metArray, kwargs) ==
  [tdbArray |-> tdbArray, trArray |-> [i \in 1..Len(tdbArray) |-> 25 * S],
   vArray |-> [i \in 1..Len(tdbArray) |-> 100000],
   rhArray |-> [i \in 1..Len(tdbArray) |-> 50 * S],
   metArray |-> metArray, cloArray |-> [i \in 1..Len(tdbArray) |-> 500000],
   units |-> "SI", limit_inputs |-> TRUE, kwargs |-> kwargs]

SetTmpArrayCalls ==
  { SetTmpArrayArgs(<< 25 * S, 41 * S >>, << 1200000, 1200000 >>, << >>),
    SetTmpArrayArgs(<< 25 * S, 25 * S >>, << 1200000, 800000 >>, << >>),
    SetTmpArrayArgs(<< 25 * S >>, << 1200000 >>, [round |-> FALSE]) }

\* ------------------------------------------------------------------------
\* vertical_tmp_grad_ppd.js

\* The arguments of vertical_tmp_grad_ppd.
VerticalArgs(tdb, tr, vr, rh, met, clo, vertical_tmp_grad, units) ==
  [tdb |-> tdb, tr |-> tr, vr |-> vr, rh |-> rh, met |-> met, clo |-> clo,
   vertical_tmp_grad |-> vertical_tmp_grad, units |-> units]

\* The arguments after lines 58-66: with units "IP" tdb, tr and vr go through
\* units_converter and the gradient becomes (vertical_tmp_grad / 1.8) * 3.28.
VerticalInSI(o) ==
  IF o.units = "IP"
  THEN [o EXCEPT !.tdb = _temp_ip_to_si(o.tdb), !.tr = _temp_ip_to_si(o.tr),
                 !.vr = _vel_ip_to_si(o.vr),
                 !.vertical_tmp_grad = Mul(Div(o.vertical_tmp_grad, 1800000), 3280000)]
  ELSE o

\* check_standard_compliance("ASHRAE", {tdb, tr, v_limited: vr, rh, met, clo})
\* (lines 67-74), for the converted arguments c.
VerticalCompliance(c) ==
  check_standard_compliance("ASHRAE",
    << Entry("tdb", << c.tdb >>), Entry("tr", << c.tr >>),
       Entry("v_limited", << c.vr >>), Entry("rh", << c.rh >>),
       Entry("met", << c.met >>), Entry("clo", << c.clo >>) >>)

\* calculate_ppd_vg (lines 94-100)
calculate_ppd_vg(tsv, vertical_tmp_grad) ==
  LET numerator == Exp(Mul(130000, Mul(tsv - 1910000, tsv - 1910000))
                       + Mul(150000, vertical_tmp_grad) - 1600000)
  IN  round((Div(numerator, S + numerator) - 345000) * 100, 1)

\* check_acceptability (lines 108-110)
check_acceptability(ppd_vg) == ppd_vg <= 5 * S

\* What pmv(tdb, tr, vr, rh, met, clo, 0, "ASHRAE") can return at line 77: the
\* function is imported from models/pmv.js, and its value is an input here.
TsvValues == { 80000, -500000, 1500000 }

\* Calls of vertical_tmp_grad_ppd: the documented one (vr = 0.1), relative air
\* speeds of 0.15, 0.2, 0.21 and 0.3 m/s, a dry-bulb temperature outside the
\* limits, and 0.5 and 1 fps at 77 F.
VerticalCalls ==
  { VerticalArgs(25 * S, 25 * S, vr, 50 * S, 1200000, 500000, 7 * S, "SI") :
      vr \in {100000, 150000, 200000, 210000, 300000} }
    \cup { VerticalArgs(45 * S, 25 * S, 100000, 50 * S, 1200000, 500000, 2 * S, "SI"),
           VerticalArgs(77 * S, 77 * S, 500000, 50 * S, 1200000, 500000, 3 * S, "IP"),
           VerticalArgs(77 * S, 77 * S, S, 50 * S, 1200000, 500000, 3 * S, "IP") }

\* ------------------------------------------------------------------------
\* pmv_ppd.js: pmv_calculation, pmv_ppd and pmv_ppd_array
\* ------------------------------------------------------------------------
\* Math.pow(x, y) for x >= 0 and y > 0; Math.sqrt(x) is PowN(x, 0.5).
PowN(x, y) == IF x <= 0 THEN 0 ELSE Pow(x, y)

\* Math.pow(x, 4)
Pow4(x) == Mul(Mul(x, x), Mul(x, x))

eps == 150                      \* 0.00015

\* The iteration count above which pmv_calculation throws (line 526).
maxIterations == 150

\* The locals of pmv_calculation before its while loop (lines 482-514) for
\* the arguments a.  To stay within 32 bits pa is held in kPa, p4 and p5 are
\* held divided by 100 and p3 = 100 * p1 is not held.
PmvEnter(a) ==
  LET pa == Mul(Div(a.rh, 100 * S),
                Exp(16653600 - 10 * Div(403018300, a.tdb + 235 * S)))
      icl == Mul(155000, a.clo)
      m == Mul(a.met, 58150000)
      w == Mul(a.wme, 58150000)
      mw == m - w
      f_cl == IF icl <= 78000 THEN S + Mul(1290000, icl)
              ELSE 1050000 + Mul(645000, icl)
      hcf == Mul(12100000, PowN(a.vr, 500000))
      taa == a.tdb + 273 * S
      tra == a.tr + 273 * S
      t_cla == taa + Div(35500000 - a.tdb, Mul(3500000, icl) + 100000)
      p1 == Mul(icl, f_cl)
      p2 == Mul(p1, 3960000)
  IN  [a |-> a, pa |-> pa, m |-> m, mw |-> mw, f_cl |-> f_cl, hcf |-> hcf,
       hc |-> hcf, taa |-> taa, tra |-> tra, p1 |-> p1, p2 |-> p2,
       p4 |-> Mul(p1, DivInt(taa, 100)),
       p5 |-> 3087000 - Mul(280, mw)
                + Mul(p2, DivInt(Pow4(DivInt(tra, 100)), 100)),
       xn |-> DivInt(t_cla, 100), xf |-> DivInt(t_cla, 50), n |-> 0,
       error |-> ""]

\* A loop that also ends once maxIterations passes are made, for comparison
\* with PmvLoopRuns.
PmvLoopRunsBelowCap(s) == Abs(s.xn - s.xf) > eps /\ s.n < maxIterations

\* The condition of the while loop (line 516).
PmvLoopRuns(s) == Abs(s.xn - s.xf) > eps

\* One pass of the body of the while loop (lines 517-528); numerator and
\* denominator of xn are both divided by 100.
PmvIter(s) ==
  LET xf == DivInt(s.xf + s.xn, 2)
      hcn == Mul(2380000, PowN(Abs(100 * xf - s.taa), 250000))
      hc == IF s.hcf > hcn THEN s.hcf ELSE hcn
      xn == Div(s.p5 + Mul(s.p4, hc) - Mul(s.p2, DivInt(Pow4(xf), 100)),
                S + Mul(s.p1, hc))
      n == s.n + 1
  IN  [s EXCEPT !.xf = xf, !.hc = hc, !.xn = xn, !.n = n,
                !.error = IF n > maxIterations
                          THEN "Max iterations exceeded" ELSE ""]

\* What pmv_calculation returns after the loop (lines 531-554).
PmvValue(s) ==
  LET tcl == 100 * s.xn - 273 * S
      hl1 == Mul(3050000, 5733000 - Mul(6990, s.mw) - s.pa)
      hl2 == IF s.mw > 58150000 THEN Mul(420000, s.mw - 58150000) ELSE 0
      hl3 == Mul(Mul(17000, s.m), 5867000 - s.pa)
      hl4 == Mul(Mul(1400, s.m), 34 * S - s.a.tdb)
      hl5 == Mul(Mul(3960000, s.f_cl), Pow4(s.xn) - Pow4(DivInt(s.tra, 100)))
      hl6 == Mul(Mul(s.f_cl, s.hc), tcl - s.a.tdb)
      ts == Mul(303000, Exp(- Mul(36000, s.m))) + 28000
  IN  Mul(ts, s.mw - hl1 - hl2 - hl3 - hl4 - hl5 - hl6)

\* 100 - 95 * Math.exp(-0.03353 * pmv^4 - 0.2179 * pmv^2); beyond |pmv| = 5
\* the exponential is below 1e-11 and the difference is 100.
ppd(pmv) ==
  IF Abs(pmv) > 5 * S THEN 100 * S
  ELSE 100 * S - 95 * Exp(- Mul(33530, Pow4(pmv)) - Mul(217900, Mul(pmv, pmv)))

\* cooling_effect(tdb, tr, vr, rh, met, clo, wme) of cooling_effect.js: the
\* drop of tdb and tr that gives in air of 0.1 m/s the standard effective
\* temperature the arguments give, to two decimal places; these are its values
\* for the arguments pmv_ppd and pmv_ppd_array pass to it here.
cooling_effect(tdb, tr, vr, rh, met, clo, wme) ==
  LET x == << tdb, tr, vr, rh, met, clo, wme >>
  IN  [ce |-> CASE x = << 25 * S, 25 * S, 300000, 50 * S, 1200000, 500000, 0 >> -> 1680000
                [] x = << 22 * S, 22 * S, 300000, 50 * S, 1200000, 500000, 0 >> -> 1650000
                [] x = << 26 * S, 26 * S, 500000, 50 * S, 1200000, 500000, 0 >> -> 2690000
                [] x = << 25 * S, 25 * S, 110000, 50 * S, 1200000, 500000, 0 >> -> 0]

\* String.prototype.toUpperCase on the unit names a caller passes
toUpperCase(str) == CASE str = "ip" -> "IP" [] str = "si" -> "SI" [] OTHER -> str

\* Object.assign(default_kwargs, kwargs) of pmv_ppd and of pmv_ppd_array
pmv_kwargs(kwargs) ==
  [k \in {"units", "limit_inputs", "airspeed_control"} |->
     IF k \in DOMAIN kwargs THEN kwargs[k]
     ELSE IF k = "units" THEN "SI" ELSE TRUE]

PmvStandardError ==
  "PMV calculations can only be performed in compliance with ISO or ASHRAE Standards"

\* pmv_ppd up to its call of pmv_calculation (lines 190-230): args are the
\* arguments it passes to pmv_calculation.
PmvInner(o) ==
  LET kwargs == pmv_kwargs(o.kwargs)
      ip == toUpperCase(kwargs.units) = "IP"
      tdb == IF ip THEN _temp_ip_to_si(o.tdb) ELSE o.tdb
      tr == IF ip THEN _temp_ip_to_si(o.tr) ELSE o.tr
      vr == IF ip THEN _vel_ip_to_si(o.vr) ELSE o.vr
  IN  IF o.standard # "ISO" /\ o.standard # "ASHRAE"
      THEN [error |-> PmvStandardError]
      ELSE LET valid == check_standard_compliance_array(o.standard,
                          [tdb |-> << tdb >>, tr |-> << tr >>, v |-> << vr >>,
                           met |-> << o.met >>, clo |-> << o.clo >>,
                           airspeed_control |-> kwargs.airspeed_control]).value
               ce == IF o.standard = "ASHRAE" /\ vr > 100000
                     THEN cooling_effect(tdb, tr, vr, o.rh, o.met, o.clo, o.wme).ce
                     ELSE 0
           IN  [error |-> "", kwargs |-> kwargs, valid |-> valid, ce |-> ce,
                args |-> [tdb |-> tdb - ce, tr |-> tr - ce,
                          vr |-> IF ce > 0 THEN 100000 ELSE vr,
                          rh |-> o.rh, met |-> o.met, clo |-> o.clo,
                          wme |-> o.wme]]

\* pmv_ppd after pmv_calculation has returned pmv (lines 233-262).  A returned
\* number x is << x >>, NaN is << >>.
PmvResult(o, c, pmv) ==
  LET pmv_valid == IF o.standard = "ASHRAE"
                   THEN valid_range(<< pmv >>, -100 * S, 100 * S)
                   ELSE valid_range(<< pmv >>, -2 * S, 2 * S)
  IN  IF /\ c.kwargs.limit_inputs
         /\ \/ \E k \in {"tdb", "tr", "v", "met", "clo"} :
                 \E i \in 1..Len(c.valid[k]) : isNaN(c.valid[k][i])
            \/ \E i \in 1..Len(pmv_valid) : isNaN(pmv_valid[i])
      THEN [pmv |-> NaN, ppd |-> NaN]
      ELSE [pmv |-> << round(pmv, 2) >>, ppd |-> << round(ppd(pmv), 1) >>]

\* The for loop of pmv_ppd_array over its arrays tdb, tr and vr (lines
\* 414-420) from index i on.  heap holds the elements of every array object;
\* tdb, tr and vr name the objects the loop writes to.
RECURSIVE PmvAdjust(_, _, _, _, _, _)
PmvAdjust(heap, tdb, tr, vr, ce, i) ==
  IF i > Len(heap[tdb]) THEN heap
  ELSE LET h1 == [heap EXCEPT ![tdb][i] = @ - ce[i]]
           h2 == [h1 EXCEPT ![tr][i] = @ - ce[i]]
           h3 == IF ce[i] > 0 THEN [h2 EXCEPT ![vr][i] = 100000] ELSE h2
       IN  PmvAdjust(h3, tdb, tr, vr, ce, i + 1)

\* pmv_ppd_array up to its map of pmv_calculation (lines 358-420).  o names
\* the array object passed for each parameter ("undefined" for none) and holds
\* the caller's heap; the result holds the heap the loop leaves and the
\* objects the map reads.
PmvArrayInner(o) ==
  LET kwargs == pmv_kwargs(o.kwargs)
      ip == kwargs.units = "IP"
      made == (IF o.wme = "undefined" THEN {"wme_0"} ELSE {})
                \cup (IF ip THEN {"tdb_si", "tr_si", "vr_si"} ELSE {})
      heap == [r \in DOMAIN o.heap \cup made |->
                 CASE r = "wme_0" -> [i \in 1..Len(o.heap[o.tdb]) |-> 0]
                   [] r = "tdb_si" ->
                        [i \in 1..Len(o.heap[o.tdb]) |-> _temp_ip_to_si(o.heap[o.tdb][i])]
                   [] r = "tr_si" ->
                        [i \in 1..Len(o.heap[o.tr]) |-> _temp_ip_to_si(o.heap[o.tr][i])]
                   [] r = "vr_si" ->
                        [i \in 1..Len(o.heap[o.vr]) |-> _vel_ip_to_si(o.heap[o.vr][i])]
                   [] OTHER -> o.heap[r]]
      wme == IF o.wme = "undefined" THEN "wme_0" ELSE o.wme
      tdb == IF ip THEN "tdb_si" ELSE o.tdb
      tr == IF ip THEN "tr_si" ELSE o.tr
      vr == IF ip THEN "vr_si" ELSE o.vr
  IN  IF o.standard # "ISO" /\ o.standard # "ASHRAE"
      THEN [error |-> PmvStandardError, heap |-> heap]
      ELSE LET valid == check_standard_compliance_array(o.standard,
                          [tdb |-> heap[tdb], tr |-> heap[tr], v |-> heap[vr],
                           met |-> heap[o.met], clo |-> heap[o.clo],
                           airspeed_control |-> kwargs.airspeed_control]).value
               ce == [i \in 1..Len(heap[tdb]) |->
                        IF o.standard = "ASHRAE" /\ heap[vr][i] > 100000
                        THEN cooling_effect(heap[tdb][i], heap[tr][i], heap[vr][i],
                                            heap[o.rh][i], heap[o.met][i],
                                            heap[o.clo][i], heap[wme][i]).ce
                        ELSE 0]
           IN  [error |-> "", kwargs |-> kwargs, valid |-> valid, ce |-> ce,
                heap |-> PmvAdjust(heap, tdb, tr, vr, ce, 1),
                tdb |-> tdb, tr |-> tr, vr |-> vr, rh |-> o.rh, met |-> o.met,
                clo |-> o.clo, wme |-> wme, pmv_array |-> << >>]

\* The arguments of the call of pmv_calculation for index i (line 423).
PmvElement(l, i) ==
  [tdb |-> l.heap[l.tdb][i], tr |-> l.heap[l.tr][i], vr |-> l.heap[l.vr][i],
   rh |-> l.heap[l.rh][i], met |-> l.heap[l.met][i], clo |-> l.heap[l.clo][i],
   wme |-> l.heap[l.wme][i]]

\* pmv_ppd_array after its map of pmv_calculation (lines 426-467).
PmvArrayResult(o, l) ==
  LET pmv_valid == IF o.standard = "ASHRAE"
                   THEN valid_range(l.pmv_array, -100 * S, 100 * S)
                   ELSE valid_range(l.pmv_array, -2 * S, 2 * S)
      nan(i) == /\ l.kwargs.limit_inputs
                /\ \/ \E k \in {"tdb", "tr", "v", "met", "clo"} : isNaN(l.valid[k][i])
                   \/ isNaN(pmv_valid[i])
  IN  [pmv |-> [i \in 1..Len(l.pmv_array) |->
                  IF nan(i) THEN NaN ELSE << round(l.pmv_array[i], 2) >>],
       ppd |-> [i \in 1..Len(l.pmv_array) |->
                  IF nan(i) THEN NaN ELSE << round(ppd(l.pmv_array[i]), 1) >>]]

\* Calls of pmv_ppd: within the ISO limits; under "ASHRAE" in air at, just
\* above and well above 0.1 m/s; outside the limits; a PMV above 2; clothing
\* on which the iteration of pmv_calculation does not settle; IP units; a
\* standard that is neither.
PmvArgs(tdb, tr, vr, rh, met, clo, wme, standard, kwargs) ==
  [tdb |-> tdb, tr |-> tr, vr |-> vr, rh |-> rh, met |-> met, clo |-> clo,
   wme |-> wme, standard |-> standard, kwargs |-> kwargs]

PmvTypical(vr, standard, kwargs) ==
  PmvArgs(25 * S, 25 * S, vr, 50 * S, 1200000, 500000, 0, standard, kwargs)

NoKwargs == [units |-> "SI"]

PmvCalls ==
  { PmvTypical(vr, standard, NoKwargs) :
      vr \in {100000, 110000, 300000}, standard \in {"ISO", "ASHRAE"} }
    \cup { PmvArgs(35 * S, 35 * S, 100000, 50 * S, 1200000, 500000, 0, "ISO", k) :
             k \in {NoKwargs, [limit_inputs |-> FALSE]} }
    \cup { PmvArgs(30 * S, 30 * S, 100000, 80 * S, 3 * S, 1500000, 0, "ISO", k) :
             k \in {NoKwargs, [limit_inputs |-> FALSE]} }
    \cup { PmvArgs(25 * S, 25 * S, 0, 50 * S, 1200000, clo, 0, "ISO", k) :
             clo \in {10 * S, 20 * S}, k \in {NoKwargs, [limit_inputs |-> FALSE]} }
    \cup { PmvArgs(77 * S, 77 * S, 984300, 50 * S, 1200000, 500000, 0, standard,
                   [units |-> u]) :
             standard \in {"ISO", "ASHRAE"}, u \in {"IP", "ip"} }
    \cup { PmvArgs(22 * S, 22 * S, 300000, 50 * S, 1200000, 500000, 0, "ASHRAE",
                   [airspeed_control |-> FALSE]),
           PmvTypical(100000, "ASHRAE55", NoKwargs) }

\* Calls of pmv_ppd_array with arrays of two elements: each parameter its own
\* array object, or one object passed as both tdb and tr; wme omitted.
PmvHeap(t1, t2, vr, clo) ==
  [t1 |-> t1, t2 |-> t2, vr |-> vr, rh |-> << 50 * S, 50 * S >>,
   met |-> << 1200000, 1200000 >>, clo |-> clo, wme |-> << 0, 0 >>]

PmvArrayArgs(tr, wme, standard, kwargs, heap) ==
  [tdb |-> "t1", tr |-> tr, vr |-> "vr", rh |-> "rh", met |-> "met",
   clo |-> "clo", wme |-> wme, standard |-> standard, kwargs |-> kwargs,
   heap |-> heap]

PmvArrayCalls ==
  LET usual == << 500000, 500000 >>
      mild == PmvHeap(<< 25 * S, 22 * S >>, << 25 * S, 22 * S >>,
                      << 300000, 100000 >>, usual)
      warm == PmvHeap(<< 25 * S, 35 * S >>, << 25 * S, 35 * S >>,
                      << 110000, 100000 >>, usual)
      heavy == PmvHeap(<< 25 * S, 25 * S >>, << 25 * S, 25 * S >>,
                       << 100000, 0 >>, << 500000, 20 * S >>)
      imperial == PmvHeap(<< 77 * S, 77 * S >>, << 77 * S, 77 * S >>,
                          << 984300, 328100 >>, usual)
  IN  { PmvArrayArgs(tr, "wme", standard, NoKwargs, mild) :
          tr \in {"t1", "t2"}, standard \in {"ISO", "ASHRAE"} }
        \cup { PmvArrayArgs("t2", wme, standard, k, warm) :
                 wme \in {"wme", "undefined"}, standard \in {"ISO", "ASHRAE"},
                 k \in {NoKwargs, [limit_inputs |-> FALSE]} }
        \cup { PmvArrayArgs("t2", "wme", "ISO", NoKwargs, heavy),
               PmvArrayArgs("t2", "wme", "ASHRAE55", NoKwargs, mild) }
        \cup { PmvArrayArgs("t2", "wme", standard, [units |-> "IP"], imperial) :
                 standard \in {"ISO", "ASHRAE"} }
        \cup { PmvArrayArgs("t2", "wme", "ISO", [units |-> "ip"], imperial) }

\* The call of pmv_ppd with the elements at index i of the arrays o holds.
PmvIndexCall(o, i) ==
  PmvArgs(o.heap[o.tdb][i], o.heap[o.tr][i], o.heap[o.vr][i], o.heap[o.rh][i],
          o.heap[o.met][i], o.heap[o.clo][i],
          IF o.wme = "undefined" THEN 0 ELSE o.heap[o.wme][i],
          o.standard, o.kwargs)

\* ------------------------------------------------------------------------
\* The state machine
\* ------------------------------------------------------------------------
vars == <<pc, call, arr, sim, ret, prev, first>>

NoCall == [fn |-> "none"]

NoArr == [index |-> 0]

NoSim == [error |-> "", nSimulation |-> 0]

NoRet == [error |-> ""]

Init ==
  /\ pc = "idle"
  /\ call = NoCall
  /\ arr = NoArr
  /\ sim = NoSim
  /\ ret = NoRet
  /\ prev = NoCall
  /\ first = NoCall

\* two_nodes(c) up to the time loop of calculate_two_nodes.
Enter_two_nodes(c) ==
  LET s == Enter(CalculateArgs(c))
  IN  /\ call' = [fn |-> "two_nodes", args |-> c]
      /\ arr' = NoArr
      /\ sim' = s
      /\ pc' = IF s.error # "" THEN "error" ELSE "while"
      /\ ret' = [error |-> s.error]

\* two_nodes_array(c) up to its for loop.
Enter_two_nodes_array(c) ==
  /\ call' = [fn |-> "two_nodes_array", args |-> c]
  /\ arr' = ArrayLocals(c)
  /\ sim' = NoSim
  /\ pc' = "for"
  /\ ret' = NoRet

Call_two_nodes ==
  /\ pc = "idle"
  /\ \E c \in ScalarCalls : Enter_two_nodes(c)
  /\ UNCHANGED <<prev, first>>

Call_two_nodes_array ==
  /\ pc = "idle"
  /\ \E c \in ArrayCalls : Enter_two_nodes_array(c)
  /\ UNCHANGED <<prev, first>>

\* After two_nodes_array has returned, the caller calls two_nodes with the
\* inputs of one index.
CallIndex_two_nodes ==
  /\ pc = "done"
  /\ call.fn = "two_nodes_array"
  /\ prev = NoCall
  /\ \E i \in 1..Len(call.args.tdbArray) : Enter_two_nodes(IndexCall(call.args, i))
  /\ prev' = [call |-> call, ret |-> ret]
  /\ UNCHANGED first

\* After two_nodes_array has returned, the caller calls it again with the
\* entries of one index changed.
CallChanged_two_nodes_array ==
  /\ pc = "done"
  /\ call.fn = "two_nodes_array"
  /\ prev = NoCall
  /\ \E c \in ArrayCalls, j \in 1..Len(call.args.tdbArray) :
       /\ DifferAt(call.args, c, j)
       /\ Enter_two_nodes_array(c)
  /\ prev' = [call |-> call, ret |-> ret]
  /\ UNCHANGED first

\* After two_nodes has returned, the caller keeps what it returned and makes
\* another call of two_nodes.
CallBetween_two_nodes ==
  /\ pc = "done"
  /\ call.fn = "two_nodes"
  /\ call.args \in RepeatedCalls
  /\ prev = NoCall
  /\ first = NoCall
  /\ \E c \in BetweenCalls : Enter_two_nodes(c)
  /\ first' = [call |-> call, ret |-> ret]
  /\ UNCHANGED prev

\* After two_nodes has returned, the caller keeps what it returned and calls
\* two_nodes_array.
CallBetween_two_nodes_array ==
  /\ pc = "done"
  /\ call.fn = "two_nodes"
  /\ call.args \in RepeatedCalls
  /\ prev = NoCall
  /\ first = NoCall
  /\ Enter_two_nodes_array(ArrayArgs(<< ElementB >>, "full", [round |-> FALSE]))
  /\ first' = [call |-> call, ret |-> ret]
  /\ UNCHANGED prev

\* After two_nodes has returned for still air, the caller keeps what it
\* returned and calls two_nodes with one argument changed.
CallVaried_two_nodes ==
  /\ pc = "done"
  /\ call.fn = "two_nodes"
  /\ call.args \in StillAirCalls
  /\ prev = NoCall
  /\ first = NoCall
  /\ \E c \in Varied(call.args) : Enter_two_nodes(c)
  /\ first' = [call |-> call, ret |-> ret]
  /\ UNCHANGED prev

\* The call in between has returned or thrown; the caller makes the kept call
\* of two_nodes again.
CallAgain_two_nodes ==
  /\ pc \in {"done", "error"}
  /\ first # NoCall
  /\ prev = NoCall
  /\ call # first.call
  /\ Enter_two_nodes(first.call.args)
  /\ UNCHANGED <<prev, first>>

\* check_standard_compliance(standard, kwargs): it returns or throws at once.
Call_check_standard_compliance ==
  /\ pc = "idle"
  /\ \E standard \in Standards, kwargs \in ComplianceKwargs :
       /\ call' = [fn |-> "check_standard_compliance",
                   args |-> [standard |-> standard, kwargs |-> kwargs]]
       /\ ret' = check_standard_compliance(standard, kwargs)
  /\ pc' = IF ret'.error # "" THEN "error" ELSE "done"
  /\ UNCHANGED <<arr, sim, prev, first>>

\* check_standard_compliance_array(standard, kwargs)
Call_check_standard_compliance_array ==
  /\ pc = "idle"
  /\ \E standard \in Standards, kwargs \in ComplianceKwargsArray :
       /\ call' = [fn |-> "check_standard_compliance_array",
                   args |-> [standard |-> standard, kwargs |-> kwargs]]
       /\ ret' = check_standard_compliance_array(standard, kwargs)
  /\ pc' = IF ret'.error # "" THEN "error" ELSE "done"
  /\ UNCHANGED <<arr, sim, prev, first>>

\* vertical_tmp_grad_ppd up to its call of pmv (lines 48-77): the conversion to
\* SI and the compliance check, which throws or returns the warnings that are
\* written to the console.
Call_vertical_tmp_grad_ppd ==
  /\ pc = "idle"
  /\ \E o \in VerticalCalls :
       /\ call' = [fn |-> "vertical_tmp_grad_ppd", args |-> o, si |-> VerticalInSI(o)]
       /\ ret' = [error |-> VerticalCompliance(VerticalInSI(o)).error]
  /\ pc' = IF ret'.error # "" THEN "error" ELSE "pmv"
  /\ UNCHANGED <<arr, sim, prev, first>>

\* pmv has returned tsv; lines 78-84
Return_vertical_tmp_grad_ppd ==
  /\ pc = "pmv"
  /\ call.fn = "vertical_tmp_grad_ppd"
  /\ \E tsv \in TsvValues :
       LET ppd_vg == calculate_ppd_vg(tsv, call.si.vertical_tmp_grad)
       IN  ret' = Returns([PPD_vg |-> ppd_vg,
                           Acceptability |-> check_acceptability(ppd_vg)])
  /\ pc' = "done"
  /\ UNCHANGED <<call, arr, sim, prev, first>>

\* set_tmp(o) up to the time loop of the calculate_two_nodes it reaches
\* through two_nodes; call.args are the arguments it passes to two_nodes.
Call_set_tmp ==
  /\ pc = "idle"
  /\ \E o \in SetTmpCalls :
       LET s == Enter(CalculateArgs(SetTmpInner(o)))
       IN  /\ call' = [fn |-> "set_tmp", args |-> SetTmpInner(o), outer |-> o]
           /\ sim' = s
           /\ pc' = IF s.error # "" THEN "error" ELSE "while"
           /\ ret' = [error |-> s.error]
  /\ arr' = NoArr
  /\ UNCHANGED <<prev, first>>

\* two_nodes returns into set_tmp, which returns
Return_set_tmp ==
  /\ pc = "et"
  /\ Abs(sim.dx) <= tolerance
  /\ call.fn = "set_tmp"
  /\ ret' = Returns(SetTmpResult(call.outer, call.args, Result(sim).set))
  /\ pc' = "done"
  /\ UNCHANGED <<call, arr, sim, prev, first>>

\* set_tmp_array(o) up to the for loop of the two_nodes_array it calls;
\* call.args are the arguments it passes to two_nodes_array.
Call_set_tmp_array ==
  /\ pc = "idle"
  /\ \E o \in SetTmpArrayCalls :
       /\ call' = [fn |-> "set_tmp_array", args |-> SetTmpArrayInner(o), outer |-> o]
       /\ arr' = ArrayLocals(SetTmpArrayInner(o))
  /\ sim' = NoSim
  /\ pc' = "for"
  /\ ret' = NoRet
  /\ UNCHANGED <<prev, first>>

\* two_nodes_array leaves its for loop and returns into set_tmp_array, which
\* returns
Return_set_tmp_array ==
  /\ pc = "for"
  /\ arr.index >= Len(call.args.tdbArray)
  /\ call.fn = "set_tmp_array"
  /\ ret' = Returns(SetTmpArrayResult(call.outer, call.args, arr.out.set))
  /\ pc' = "done"
  /\ UNCHANGED <<call, arr, sim, prev, first>>

\* for (let index = 0; index < tdbArray.length; index++) { calculate_two_nodes(
ForIteration ==
  /\ pc = "for"
  /\ arr.index < Len(call.args.tdbArray)
  /\ sim' = Enter(LoopArgs(call.args, arr))
  /\ pc' = IF sim'.error # "" THEN "error" ELSE "while"
  /\ ret' = [error |-> sim'.error]
  /\ UNCHANGED <<call, arr, prev, first>>

\* while (nSimulation < lengthTimeSimulation) { nSimulation += 1; ...
BeginTimeStep ==
  /\ pc = "while"
  /\ TimeLoopRuns(sim)
  /\ sim' = BeginStep(sim)
  /\ pc' = "clothing"
  /\ UNCHANGED <<call, arr, ret, prev, first>>

\* while (!tcConverged) { ... if (nIterations > iterationLimit) throw ... }
ClothingIteration ==
  /\ pc = "clothing"
  /\ ~sim.tcConverged
  /\ sim' = ClothingPass(sim)
  /\ pc' = IF sim'.error # "" THEN "error" ELSE "clothing"
  /\ ret' = [error |-> sim'.error]
  /\ UNCHANGED <<call, arr, prev, first>>

\* the rest of the time step, once the clothing loop has been left
EndTimeStep ==
  /\ pc = "clothing"
  /\ sim.tcConverged
  /\ sim' = StepTail(sim)
  /\ pc' = "while"
  /\ UNCHANGED <<call, arr, ret, prev, first>>

\* the time loop is left; calculate_set is entered
LeaveTimeLoop ==
  /\ pc = "while"
  /\ ~TimeLoopRuns(sim)
  /\ sim' = AfterLoop(sim)
  /\ pc' = "set"
  /\ UNCHANGED <<call, arr, ret, prev, first>>

\* while (Math.abs(dx) > 0.01) in calculate_set
SetIteration ==
  /\ pc = "set"
  /\ Abs(sim.dx) > tolerance
  /\ sim' = SetStep(sim)
  /\ UNCHANGED <<pc, call, arr, ret, prev, first>>

\* calculate_set returns; calculate_et is entered
SetReturn ==
  /\ pc = "set"
  /\ Abs(sim.dx) <= tolerance
  /\ sim' = BeginEt(sim)
  /\ pc' = "et"
  /\ UNCHANGED <<call, arr, ret, prev, first>>

\* while (Math.abs(dx) > 0.01) in calculate_et
EtIteration ==
  /\ pc = "et"
  /\ Abs(sim.dx) > tolerance
  /\ sim' = EtStep(sim)
  /\ UNCHANGED <<pc, call, arr, ret, prev, first>>

\* calculate_et and calculate_two_nodes return; two_nodes rounds and returns
Return_two_nodes ==
  /\ pc = "et"
  /\ Abs(sim.dx) <= tolerance
  /\ call.fn = "two_nodes"
  /\ ret' = [error |-> "",
             value |-> IF sim.a.kwargs.round THEN Rounded(Result(sim)) ELSE Result(sim)]
  /\ pc' = "done"
  /\ UNCHANGED <<call, arr, sim, prev, first>>

\* calculate_two_nodes returns into the for loop: the 18 pushes and index++
PushResult ==
  /\ pc = "et"
  /\ Abs(sim.dx) <= tolerance
  /\ call.fn \in {"two_nodes_array", "set_tmp_array"}
  /\ arr' = [arr EXCEPT !.out = Push(arr.out, Result(sim)),
                        !.index = arr.index + 1]
  /\ pc' = "for"
  /\ UNCHANGED <<call, sim, ret, prev, first>>

\* the for loop is left; two_nodes_array rounds and returns
Return_two_nodes_array ==
  /\ pc = "for"
  /\ arr.index >= Len(call.args.tdbArray)
  /\ call.fn = "two_nodes_array"
  /\ ret' = [error |-> "", value |-> ArrayResult(arr)]
  /\ pc' = "done"
  /\ UNCHANGED <<call, arr, sim, prev, first>>

\* pmv_ppd(o) up to the while loop of the pmv_calculation it calls.
Enter_pmv_ppd(o, i) ==
  LET c == PmvInner(o)
  IN  /\ call' = [fn |-> "pmv_ppd", args |-> o, inner |-> c, index |-> i]
      /\ sim' = IF c.error # "" THEN NoSim ELSE PmvEnter(c.args)
      /\ pc' = IF c.error # "" THEN "error" ELSE "pmv_while"
      /\ ret' = [error |-> c.error]
      /\ arr' = NoArr

Call_pmv_ppd ==
  /\ pc = "idle"
  /\ \E o \in PmvCalls : Enter_pmv_ppd(o, 0)
  /\ UNCHANGED <<prev, first>>

\* pmv_ppd_array(o) up to its map of pmv_calculation; arr.heap holds the
\* caller's arrays and those the function made.
Enter_pmv_ppd_array(o) ==
  LET l == PmvArrayInner(o)
  IN  /\ call' = [fn |-> "pmv_ppd_array", args |-> o]
      /\ arr' = l
      /\ sim' = NoSim
      /\ pc' = IF l.error # "" THEN "error" ELSE "map"
      /\ ret' = [error |-> l.error]

Call_pmv_ppd_array ==
  /\ pc = "idle"
  /\ \E o \in PmvArrayCalls : Enter_pmv_ppd_array(o)
  /\ UNCHANGED <<prev, first>>

\* After pmv_ppd_array has returned or thrown, the caller calls pmv_ppd with
\* the elements its arrays had at one index when it called pmv_ppd_array.
CallIndex_pmv_ppd ==
  /\ pc \in {"done", "error"}
  /\ call.fn = "pmv_ppd_array"
  /\ prev = NoCall
  /\ \E i \in 1..Len(call.args.heap[call.args.tdb]) :
       Enter_pmv_ppd(PmvIndexCall(call.args, i), i)
  /\ prev' = [call |-> call, ret |-> ret]
  /\ UNCHANGED first

\* After pmv_ppd_array has returned, the caller calls it again with the same
\* array objects, standard and kwargs.
CallAgain_pmv_ppd_array ==
  /\ pc = "done"
  /\ call.fn = "pmv_ppd_array"
  /\ prev = NoCall
  /\ Enter_pmv_ppd_array(
       [call.args EXCEPT !.heap = [r \in DOMAIN call.args.heap |-> arr.heap[r]]])
  /\ prev' = [call |-> call, ret |-> ret]
  /\ UNCHANGED first

\* The map of pmv_ppd_array calls pmv_calculation for the next index.
Map_pmv_calculation ==
  /\ pc = "map"
  /\ Len(arr.pmv_array) < Len(arr.heap[arr.tdb])
  /\ sim' = PmvEnter(PmvElement(arr, Len(arr.pmv_array) + 1))
  /\ pc' = "pmv_while"
  /\ UNCHANGED <<call, arr, ret, prev, first>>

\* One pass of the while loop of pmv_calculation
PmvIteration ==
  /\ pc = "pmv_while"
  /\ PmvLoopRuns(sim)
  /\ sim' = PmvIter(sim)
  /\ pc' = IF sim'.error # "" THEN "error" ELSE "pmv_while"
  /\ ret' = [error |-> sim'.error]
  /\ UNCHANGED <<call, arr, prev, first>>

\* pmv_calculation returns into pmv_ppd, which returns
Return_pmv_ppd ==
  /\ pc = "pmv_while"
  /\ ~PmvLoopRuns(sim)
  /\ call.fn = "pmv_ppd"
  /\ ret' = Returns(PmvResult(call.args, call.inner, PmvValue(sim)))
  /\ pc' = "done"
  /\ UNCHANGED <<call, arr, sim, prev, first>>

\* pmv_calculation returns into the map of pmv_ppd_array
Return_pmv_calculation ==
  /\ pc = "pmv_while"
  /\ ~PmvLoopRuns(sim)
  /\ call.fn = "pmv_ppd_array"
  /\ arr' = [arr EXCEPT !.pmv_array = Append(@, PmvValue(sim))]
  /\ pc' = "map"
  /\ UNCHANGED <<call, sim, ret, prev, first>>

\* pmv_ppd_array returns
Return_pmv_ppd_array ==
  /\ pc = "map"
  /\ Len(arr.pmv_array) = Len(arr.heap[arr.tdb])
  /\ ret' = Returns(PmvArrayResult(call.args, arr))
  /\ pc' = "done"
  /\ UNCHANGED <<call, arr, sim, prev, first>>

Next ==
  \/ Call_two_nodes
  \/ Call_two_nodes_array
  \/ CallIndex_two_nodes
  \/ CallChanged_two_nodes_array
  \/ CallBetween_two_nodes
  \/ CallBetween_two_nodes_array
  \/ CallVaried_two_nodes
  \/ CallAgain_two_nodes
  \/ Call_check_standard_compliance
  \/ Call_check_standard_compliance_array
  \/ Call_vertical_tmp_grad_ppd
  \/ Return_vertical_tmp_grad_ppd
  \/ Call_set_tmp
  \/ Return_set_tmp
  \/ Call_set_tmp_array
  \/ Return_set_tmp_array
  \/ ForIteration
  \/ BeginTimeStep
  \/ ClothingIteration
  \/ EndTimeStep
  \/ LeaveTimeLoop
  \/ SetIteration
  \/ SetReturn
  \/ EtIteration
  \/ Return_two_nodes
  \/ PushResult
  \/ Return_two_nodes_array
  \/ Call_pmv_ppd
  \/ Call_pmv_ppd_array
  \/ CallIndex_pmv_ppd
  \/ CallAgain_pmv_ppd_array
  \/ Map_pmv_calculation
  \/ PmvIteration
  \/ Return_pmv_ppd
  \/ Return_pmv_calculation
  \/ Return_pmv_ppd_array

Spec == Init /\ [][Next]_vars

\* ------------------------------------------------------------------------
\* Properties
\* ------------------------------------------------------------------------

\* C1: after every time step of a call of two_nodes, and in the record it
\* returns before rounding, the skin blood flow mBl lies between 0.5 and the
\* max_skin_blood_flow the caller passed (90 by default).
C1_SkinBloodFlowWithinCallerLimit ==
  /\ (call.fn = "two_nodes" /\ pc \in {"while", "set", "et", "done"}
        /\ sim.nSimulation > 0)
       => /\ 500000 <= sim.mBl
          /\ sim.mBl <= call.args.max_skin_blood_flow
  /\ (call.fn = "two_nodes" /\ pc = "done")
       => /\ 500000 <= Result(sim).mBl
          /\ Result(sim).mBl <= call.args.max_skin_blood_flow

\* C2: in a call that returns, the skin wettedness w at the end of every time
\* step and in the returned record is at least 0 and at most wMax, the
\* wettedness limit of that call.
C2_WettednessWithinLimit ==
  /\ (pc \in {"while", "set", "et"} /\ sim.nSimulation > 0)
       => (0 <= sim.w /\ sim.w <= sim.wMax)
  /\ (pc = "done" /\ call.fn = "two_nodes" /\ sim.a.kwargs.round)
       => (0 <= ret.value.w /\ ret.value.w <= ret.value.w_max)
  /\ (pc = "done" /\ call.fn = "two_nodes" /\ ~sim.a.kwargs.round)
       => (0 <= ret.value.w /\ ret.value.w <= ret.value.wMax)
  /\ (pc = "done" /\ call.fn = "two_nodes_array")
       => \A i \in 1..Len(ret.value.w) :
            0 <= ret.value.w[i] /\ ret.value.w[i] <= ret.value.w_max[i]

\* two_nodes has returned a record in which the wettedness was cut down to a
\* positive limit wMax, in a call with a positive evaporative capacity.
C2_WettednessClipped ==
  /\ pc = "done"
  /\ call.fn = "two_nodes"
  /\ ~sim.a.kwargs.round
  /\ sim.eMax > 0
  /\ sim.wMax > 0
  /\ sim.eRsw > 0
  /\ ret.value.w = ret.value.wMax

\* C3: when rm = (met - wme) * 58.2 is below 58.2, the call of two_nodes goes
\* on with eComfort = 0 and returns a record; it does not raise.
C3_LowMetabolicRateReturns ==
  (call.fn = "two_nodes"
     /\ calculate_metabolic_rate(call.args.met, call.args.wme) < metFactor)
    => (pc # "error" /\ sim.eComfort = 0)

\* C4: when kwargs.w_max is a number, the wettedness limit wMax the simulation
\* uses is that number; the formula is used only when w_max is false.
C4_WMaxOverride ==
  /\ (call.fn = "two_nodes" /\ "w_max" \in DOMAIN call.args.kwargs
        /\ Len(call.args.kwargs.w_max) = 1)
       => sim.wMax = call.args.kwargs.w_max[1]
  /\ (call.fn = "two_nodes" /\ "w_max" \notin DOMAIN call.args.kwargs)
       => sim.wMax = calculate_w_max(sim.airSpeed, call.args.clo,
                                     [w_max |-> << >>])

\* C6: the convergence error is raised only by a clothing-temperature
\* iteration that went past 150 passes without its change in tCl ever being
\* within 0.01; a pass that meets the tolerance does not raise.
C6_ConvergenceErrorOnlyWithoutTolerance ==
  (pc = "error" /\ ret.error = "Max iterations exceeded") => ~sim.tcConverged

\* C7: a call that does not raise makes exactly 60 passes of the time loop,
\* the first from the neutral state (tSkin 33.7, tCore 36.8, mBl 6.3, alfa 0.1),
\* and SET, ET and the other indices are computed only after the 60th pass,
\* from the state it left.
C7_SixtyStepsFromNeutral ==
  /\ (pc = "while" /\ sim.nSimulation = 0)
       => /\ sim.tSkin = tempSkinNeutral
          /\ sim.tCore = tempCoreNeutral
          /\ sim.mBl = skinBloodFlowNeutral
          /\ sim.alfa = 100000
  /\ pc \in {"while", "clothing"} => sim.nSimulation <= lengthTimeSimulation
  /\ pc \in {"set", "et"} => sim.nSimulation = lengthTimeSimulation
  /\ (pc = "done" /\ call.fn = "two_nodes")
       => /\ sim.nSimulation = lengthTimeSimulation
          /\ ret.value = IF sim.a.kwargs.round THEN Rounded(Result(sim))
                         ELSE Result(sim)

\* two_nodes has returned a record after the 60 passes.
C7_ReturnedAfterSixtySteps ==
  /\ pc = "done"
  /\ call.fn = "two_nodes"
  /\ ret.error = ""
  /\ sim.nSimulation = lengthTimeSimulation
  /\ sim.tSkin # tempSkinNeutral
  /\ sim.set # 0

\* C8: each of the 18 quantities two_nodes_array returns at index i has the
\* value two_nodes returns for it when called with the inputs of index i and
\* the same kwargs, with rounding and without.
C8_ArrayEqualsScalar ==
  (pc = "done" /\ call.fn = "two_nodes" /\ prev # NoCall)
    => \A i \in 1..Len(prev.call.args.tdbArray) :
         call.args = IndexCall(prev.call.args, i)
           => \A q \in Quantities :
                prev.ret.value[ReturnKey[q]][i]
                  = IF sim.a.kwargs.round THEN ret.value[ReturnKey[q]]
                    ELSE ret.value[q]

\* two_nodes has returned for the inputs of the second index of an array call
\* whose optional parameters were broadcast and whose two indices gave
\* different results.
C8_SecondIndexReplayed ==
  /\ pc = "done"
  /\ call.fn = "two_nodes"
  /\ prev # NoCall
  /\ Len(prev.call.args.tdbArray) >= 2
  /\ Len(prev.call.args.wme) < Len(prev.call.args.tdbArray)
  /\ call.args = IndexCall(prev.call.args, 2)
  /\ prev.ret.value.set[1] # prev.ret.value.set[2]
  /\ ret.value.set = prev.ret.value.set[2]

\* C9: in two_nodes_array each of wme, body_surface_area, p_atmospheric,
\* body_position and max_skin_blood_flow that is shorter than tdbArray becomes
\* an array of that length repeating its first element, a longer one is kept
\* as it is, and the resulting value of each is the one the computation of
\* every index uses (for max_skin_blood_flow: as the upper limit of mBl).
C9_BroadcastUsedAtEveryIndex ==
  (call.fn = "two_nodes_array" /\ pc # "idle")
    => /\ \A f \in { <<"wme", "wmeArray">>,
                     <<"body_surface_area", "bodySurfaceArray">>,
                     <<"p_atmospheric", "pAtmArray">>,
                     <<"body_position", "bodyPositionArray">>,
                     <<"max_skin_blood_flow", "maxSkinBloodFlowArray">> } :
            LET given == call.args[f[1]]
                n == Len(call.args.tdbArray)
            IN  arr[f[2]] = IF Len(given) < n THEN [i \in 1..n |-> given[1]]
                            ELSE given
       /\ pc \in {"while", "clothing", "set", "et"}
            => /\ sim.a.wme = arr.wmeArray[arr.index + 1]
               /\ sim.a.bodySurfaceArea = arr.bodySurfaceArray[arr.index + 1]
               /\ sim.a.pAtmospheric = arr.pAtmArray[arr.index + 1]
               /\ sim.a.bodyPosition = arr.bodyPositionArray[arr.index + 1]
       /\ (pc \in {"while", "set", "et"} /\ sim.nSimulation > 0)
            => sim.mBl <= arr.maxSkinBloodFlowArray[arr.index + 1]

\* C10: for full-length inputs, changing only the entries of index j leaves
\* every value two_nodes_array returns at every other index unchanged.
C10_NoCrossElementInteraction ==
  (pc = "done" /\ call.fn = "two_nodes_array" /\ prev # NoCall)
    => \A j \in 1..Len(call.args.tdbArray) :
         DifferAt(prev.call.args, call.args, j)
           => \A i \in 1..Len(call.args.tdbArray) :
                i # j => \A k \in DOMAIN ret.value :
                           ret.value[k][i] = prev.ret.value[k][i]

\* two_nodes_array has returned for inputs changed at one index only, and its
\* results changed at that index while there is another index.
C10_OneIndexChanged ==
  /\ pc = "done"
  /\ call.fn = "two_nodes_array"
  /\ prev # NoCall
  /\ Len(call.args.tdbArray) >= 2
  /\ \E j \in 1..Len(call.args.tdbArray) :
       /\ DifferAt(prev.call.args, call.args, j)
       /\ ret.value.set[j] # prev.ret.value.set[j]

\* C11: every array two_nodes_array returns is as long as tdbArray, and its
\* element at position i is the result computed from the inputs at position i,
\* with rounding and without: each pass of the for loop computes from the
\* inputs of its index, puts its results at that position and leaves the
\* positions before it as they were.
C11_OutputOrderIsInputOrder ==
  /\ [](call.fn = "two_nodes_array"
         => /\ pc \in {"for", "done"}
                 => \A q \in Quantities : Len(arr.out[q]) = arr.index
            /\ pc \in {"while", "clothing", "set", "et"}
                 => sim.a = LoopArgs(call.args, arr)
            /\ (pc = "for" /\ arr.index > 0)
                 => \A q \in Quantities :
                      arr.out[q][arr.index] = Result(sim)[q]
            /\ pc = "done"
                 => \A q \in Quantities :
                      /\ Len(ret.value[ReturnKey[q]]) = Len(call.args.tdbArray)
                      /\ \A i \in 1..Len(call.args.tdbArray) :
                           ret.value[ReturnKey[q]][i]
                             = IF arr.joint_kwargs.round
                               THEN round(arr.out[q][i], 1)
                               ELSE arr.out[q][i])
  /\ [][(pc = "et" /\ pc' = "for")
          => \A q \in Quantities :
               SubSeq(arr'.out[q], 1, arr.index) = arr.out[q]]_vars

\* two_nodes_array has returned arrays of two elements whose two positions
\* hold different results, without rounding.
C11_TwoDifferentResultsReturned ==
  /\ pc = "done"
  /\ call.fn = "two_nodes_array"
  /\ ~arr.joint_kwargs.round
  /\ Len(call.args.tdbArray) >= 2
  /\ Len(ret.value.set) = Len(call.args.tdbArray)
  /\ ret.value.set[1] # ret.value.set[2]
  /\ ret.value.t_skin[2] = sim.tSkin

\* C12: two calls of two_nodes with the same arguments return the same record,
\* whatever call of two_nodes or two_nodes_array was made, returned or threw
\* between them: the second call reads nothing the calls before it wrote.
C12_SameArgumentsSameRecord ==
  /\ (first # NoCall /\ call = first.call /\ pc = "done") => ret = first.ret
  /\ (first # NoCall /\ call = first.call) => pc # "error"
  /\ (call.fn = "two_nodes" /\ pc \notin {"idle"})
       => sim.a = CalculateArgs(call.args)

\* two_nodes has returned for the second time for the same arguments, after a
\* call with other options between the two that returned another record.
C12_CalledAgainAfterAnotherCall ==
  /\ pc = "done"
  /\ first # NoCall
  /\ call = first.call
  /\ ret.error = ""
  /\ "round" \notin DOMAIN call.args.kwargs
  /\ "t_skin" \in DOMAIN ret.value
  /\ sim.nSimulation = lengthTimeSimulation

\* C13: with limit_inputs, set_tmp, and set_tmp_array at each index, called
\* with tdb or tr outside 10..40, v outside 0..2, met outside 1..4 or clo
\* outside 0..1.5 returns NaN as the SET value and does not raise.
C13_OutOfLimitsGivesNaN ==
  LET outside(tdb, tr, v, met, clo) ==
        \/ tdb < 10 * S \/ tdb > 40 * S \/ tr < 10 * S \/ tr > 40 * S
        \/ v < 0 \/ v > 2 * S \/ met < 1 * S \/ met > 4 * S
        \/ clo < 0 \/ clo > 1500000
      c == call.args
  IN  /\ (call.fn = "set_tmp" /\ call.outer.limit_inputs
            /\ outside(c.tdb, c.tr, c.v, c.met, c.clo))
           => /\ pc # "error"
              /\ pc = "done" => isNaN(ret.value.set)
      /\ (call.fn = "set_tmp_array" /\ call.outer.limit_inputs)
           => /\ (\E i \in 1..Len(c.tdbArray) :
                    outside(c.tdbArray[i], c.trArray[i], c.vArray[i],
                            c.metArray[i], c.cloArray[i]))
                   => pc # "error"
              /\ pc = "done"
                   => \A i \in 1..Len(c.tdbArray) :
                        outside(c.tdbArray[i], c.trArray[i], c.vArray[i],
                                c.metArray[i], c.cloArray[i])
                          => isNaN(ret.value[i])

\* C14: check_standard_compliance and check_standard_compliance_array throw
\* for every standard name they do not support, and return nothing for it.
C14_UnsupportedStandardThrows ==
  /\ (call.fn = "check_standard_compliance"
        /\ call.args.standard \notin {"ANKLE_DRAFT", "ASHRAE", "ISO", "ISO7933"})
       => pc = "error"
  /\ (call.fn = "check_standard_compliance_array"
        /\ call.args.standard \notin {"ASHRAE", "FAN_HEATWAVES", "ISO"})
       => pc = "error"

\* C15: the regulatory sweat rate is at most kwargs.max_sweating (500 unless
\* the caller passes one) at the end of every time step, the steps where the
\* wettedness is capped at wMax included, and in the record
\* calculate_two_nodes returns.
C15_SweatRateWithinLimit ==
  (call.fn = "two_nodes" /\ pc \in {"while", "set", "et", "done"})
    => sim.mRsw <= sim.a.kwargs.max_sweating

\* C16: for every air speed v <= 0.1, two_nodes returns exactly the record it
\* returns for v = 0.1 with the other arguments the same, and raises nothing.
C16_AirSpeedFloor ==
  (/\ first # NoCall
   /\ call.fn = "two_nodes"
   /\ first.call.args.v = 100000
   /\ call.args.v <= 100000
   /\ call.args = [first.call.args EXCEPT !.v = call.args.v])
    => /\ pc # "error"
       /\ pc = "done" => ret = first.ret

\* two_nodes has returned for v = 0.05 and for v = 0 after it returned for
\* v = 0.1.
C16_ReturnedForLowerAirSpeed ==
  /\ pc = "done"
  /\ first # NoCall
  /\ call.fn = "two_nodes"
  /\ call.args.v \in {0, 50000}
  /\ call.args = [first.call.args EXCEPT !.v = call.args.v]
  /\ first.call.args.v = 100000

\* C17: for a body_position other than "sitting", two_nodes raises or returns
\* exactly the record it returns for "standing", hR having the factor 0.73;
\* for "sitting" hR has the factor 0.7.
C17_BodyPosition ==
  /\ [](( /\ first # NoCall
          /\ call.fn = "two_nodes"
          /\ first.call.args.body_position = "standing"
          /\ call.args.body_position # "sitting"
          /\ call.args = [first.call.args
                            EXCEPT !.body_position = call.args.body_position]
          /\ pc = "done")
         => ret = first.ret)
  /\ [][(pc = "clothing" /\ pc' = "clothing")
          => LET T == Div(sim.tCl + sim.a.tr, 2 * S) + 273150000
                 h == Mul(Mul(Mul(4 * S, 950000), sbc6), Cube(Div(T, 100 * S)))
             IN  sim'.hR = IF sim.a.bodyPosition = "sitting"
                           THEN Mul(h, 700000) ELSE Mul(h, 730000)]_vars

\* two_nodes has returned for "seated" after it returned for "standing".
C17_ReturnedForSeated ==
  /\ pc = "done"
  /\ first # NoCall
  /\ call.fn = "two_nodes"
  /\ first.call.args.body_position = "standing"
  /\ call.args = [first.call.args EXCEPT !.body_position = "seated"]

\* C18: alfa is above 0 and below 1 at every point of the simulation: it is
\* 0.1 until the first time step has ended, and after each time step it is
\* 0.0417737 + 0.7451833 / (mBl + 0.585417) for the mBl of that step, which is
\* at least 0.5.
C18_AlfaWithinUnitInterval ==
  ("alfa" \in DOMAIN sim /\ pc \in {"while", "clothing", "set", "et", "done"})
    => /\ 0 < sim.alfa
       /\ sim.alfa < S
       /\ (sim.nSimulation = 0 \/ (sim.nSimulation = 1 /\ pc = "clothing"))
            => sim.alfa = 100000
       /\ (sim.nSimulation > 0 /\ pc # "clothing")
            => /\ sim.mBl >= 500000
               /\ sim.alfa = 41774 + Div(745183, sim.mBl + 585417)

\* The sixtieth time step has ended in the hot environment with the skin
\* blood flow above 90 and alfa below 0.05.
C18_AlfaAfterSixtySteps ==
  /\ pc = "while"
  /\ sim.nSimulation = 60
  /\ sim.mBl > 90 * S
  /\ sim.alfa < 50000

\* C19: the record two_nodes returns has exactly 18 fields, and their names
\* are the same with kwargs.round true and false and in what two_nodes_array
\* returns, so that a caller reads a quantity under one name in all cases.
C19_SameFieldNames ==
  (pc = "done" /\ call.fn \in {"two_nodes", "two_nodes_array"})
    => /\ Cardinality(DOMAIN ret.value) = 18
       /\ first # NoCall => DOMAIN ret.value = DOMAIN first.ret.value
       /\ prev # NoCall => DOMAIN ret.value = DOMAIN prev.ret.value

\* C20: vertical_tmp_grad_ppd raises the applicability error, and returns no
\* result, for every relative air speed that in SI is not lower than 0.2 m/s,
\* and does not raise that error for any that is lower than 0.2 m/s.
C20_ApplicableBelowLimitOnly ==
  call.fn = "vertical_tmp_grad_ppd"
    => /\ call.si.vr >= 200000
            => /\ pc = "error"
               /\ ret.error = "This equation is only applicable for air speed lower than 0.2 m/s"
       /\ call.si.vr < 200000
            => ret.error # "This equation is only applicable for air speed lower than 0.2 m/s"

\* C24: check_standard_compliance("ISO", kwargs) returns the warning of a
\* parameter exactly when a value supplied for it is outside its ISO 7730
\* limits (tdb 10..30, tr 10..40, v or vr 0..1, met 0.8..4, clo 0..2), so the
\* list is empty when every supplied value is within its limits.
C24_IsoWarningsExact ==
  LET kwargs == call.args.kwargs
      warned(text) == \E i \in 1..Len(ret.value) : ret.value[i] = text
      outside(keys, min, max) ==
        \E i \in 1..Len(kwargs) :
          /\ kwargs[i].key \in keys
          /\ Defined(kwargs[i])
          /\ (kwargs[i].value[1] < min \/ kwargs[i].value[1] > max)
  IN  (call.fn = "check_standard_compliance" /\ call.args.standard = "ISO"
         /\ pc = "done")
        => /\ warned("ISO air temperature applicability limits between 10 and 30 C")
                <=> outside({"tdb"}, 10 * S, 30 * S)
           /\ warned("ISO mean radiant temperature applicability limits between 10 and 40 C")
                <=> outside({"tr"}, 10 * S, 40 * S)
           /\ warned("ISO air speed applicability limits between 0 and 1 m/s")
                <=> outside({"v", "vr"}, 0, 1 * S)
           /\ warned("ISO met applicability limits between 0.8 and 4.0 met")
                <=> outside({"met"}, 800000, 4 * S)
           /\ warned("ISO clo applicability limits between 0.0 and 2 clo")
                <=> outside({"clo"}, 0, 2 * S)

\* C25: two_nodes(25, 25, 0.3, 50, 1.2, 0.5) with default options returns
\* e_skin 16.2, e_rsw 7, e_max 159.9, q_sensible 47.6, q_skin 63.8, q_res 5.2,
\* t_core 36.9, t_skin 33.7, m_bl 12.9, m_rsw 10.3, w 0.1, w_max 0.6, set 23.6,
\* et 25, pmv_gagge 0.1, pmv_set 0, disc 0.1, t_sens 0.1, each within 0.1.
C25_DocumentedRecord ==
  LET documented ==
        [e_skin |-> 16200000, e_rsw |-> 7000000, e_max |-> 159900000,
         q_sensible |-> 47600000, q_skin |-> 63800000, q_res |-> 5200000,
         t_core |-> 36900000, t_skin |-> 33700000, m_bl |-> 12900000,
         m_rsw |-> 10300000, w |-> 100000, w_max |-> 600000, set |-> 23600000,
         et |-> 25000000, pmv_gagge |-> 100000, pmv_set |-> 0, disc |-> 100000,
         t_sens |-> 100000]
  IN  (call = [fn |-> "two_nodes", args |-> Documented] /\ pc \in {"done", "error"})
        => /\ pc = "done"
           /\ DOMAIN ret.value = DOMAIN documented
           /\ \A k \in DOMAIN documented :
                Abs(ret.value[k] - documented[k]) <= 100000

\* two_nodes has returned for the documented call, with sweating under way.
C25_DocumentedCallReturned ==
  /\ pc = "done"
  /\ call = [fn |-> "two_nodes", args |-> Documented]
  /\ sim.nSimulation = 60
  /\ ret.value.e_rsw > 0

\* C27: a time step in which the maximum evaporative capacity eMax is negative
\* ends with eDiff = 0, eRsw = 0, w = wMax, eSkin = 0 and mRsw = 0.
C27_NegativeEvaporativeCapacity ==
  (pc = "while" /\ sim.nSimulation > 0 /\ sim.eMax < 0)
    => /\ sim.eDiff = 0
       /\ sim.eRsw = 0
       /\ sim.w = sim.wMax
       /\ sim.eSkin = 0
       /\ sim.mRsw = 0

\* The sixtieth time step has ended with a negative eMax, in a body that is
\* warmer than neutral, so that the sweating signal is positive.
C27_NegativeCapacityAfterSixtySteps ==
  /\ pc = "while"
  /\ sim.nSimulation = 60
  /\ sim.eMax < 0
  /\ sim.tBody > sim.tempBodyNeutral
  /\ sim.tSkin > tempSkinNeutral

\* C28: the record calculate_two_nodes produces satisfies, for the values
\* after the sixtieth time step, eSkin = eRsw + eDiff, mRsw = eRsw / 0.68 and
\* qSkin = qSensible + eSkin.
C28_HeatBalanceIdentities ==
  /\ (pc \in {"set", "et", "done"} /\ "eDiff" \in DOMAIN sim)
       => /\ sim.nSimulation = 60
          /\ Result(sim).eSkin = Result(sim).eRsw + sim.eDiff
          /\ Result(sim).mRsw = Div(Result(sim).eRsw, 680000)
          /\ Result(sim).qSkin = Result(sim).qSensible + Result(sim).eSkin
  /\ (pc = "done" /\ call.fn = "two_nodes" /\ ~sim.a.kwargs.round)
       => /\ ret.value.eSkin = ret.value.eRsw + sim.eDiff
          /\ ret.value.mRsw = Div(ret.value.eRsw, 680000)
          /\ ret.value.qSkin = ret.value.qSensible + ret.value.eSkin

\* two_nodes has returned, without rounding, a record with sweating and with
\* heat lost through the skin both ways.
C28_UnroundedRecordReturned ==
  /\ pc = "done"
  /\ call.fn = "two_nodes"
  /\ ~sim.a.kwargs.round
  /\ ret.value.eRsw > 0
  /\ sim.eDiff > 0
  /\ ret.value.qSensible > 0

\* C29: the while loop of pmv_calculation makes at most 151 passes; when
\* pmv_calculation has returned (into pmv_ppd, which is done, or into the map
\* of pmv_ppd_array) the loop ended with |xn - xf| <= 0.00015 after at most
\* 150 passes; and the call has failed inside pmv_calculation exactly when
\* the 151st pass was made, with the error "Max iterations exceeded".
C29_ClothingIterationBounded ==
  (call.fn \in {"pmv_ppd", "pmv_ppd_array"} /\ "xn" \in DOMAIN sim)
    => /\ sim.n <= 151
       /\ (pc \in {"done", "map"})
            => (Abs(sim.xn - sim.xf) <= 150 /\ sim.n <= 150 /\ ret.error = "")
       /\ (pc = "error") <=> (sim.n = 151)
       /\ (sim.n = 151) => (ret.error = "Max iterations exceeded")

\* pmv_ppd has thrown after the 151st pass of the loop, the iterates still
\* apart.
C29_ThrownAtTheCap ==
  /\ pc = "error"
  /\ call.fn = "pmv_ppd"
  /\ "xn" \in DOMAIN sim
  /\ sim.n = 151
  /\ Abs(sim.xn - sim.xf) > 150
  /\ ret.error = "Max iterations exceeded"

\* pmv_ppd has returned a PMV after several passes of the loop.
C29_ReturnedConverged ==
  /\ pc = "done"
  /\ call.fn = "pmv_ppd"
  /\ sim.n > 5
  /\ ret.value.pmv # NaN

\* C21: in a call of pmv_ppd in SI units, pmv_calculation is given tdb - ce,
\* tr - ce and the air speed 0.1, ce being the cooling effect of the
\* arguments, when the standard is "ASHRAE" and vr > 0.1; and tdb, tr and vr
\* as they were passed when vr <= 0.1 or the standard is "ISO".
C21_CoolingEffectApplied ==
  (call.fn = "pmv_ppd" /\ pc \in {"pmv_while", "done"}
     /\ call.inner.kwargs.units = "SI")
    => LET o == call.args
       IN  IF o.standard = "ASHRAE" /\ o.vr > 100000
           THEN LET ce == cooling_effect(o.tdb, o.tr, o.vr, o.rh, o.met, o.clo, o.wme).ce
                IN  /\ sim.a.tdb = o.tdb - ce
                    /\ sim.a.tr = o.tr - ce
                    /\ sim.a.vr = 100000
           ELSE /\ sim.a.tdb = o.tdb
                /\ sim.a.tr = o.tr
                /\ sim.a.vr = o.vr

\* C22: a call of pmv_ppd with limit_inputs true and tdb, tr, vr, met or clo
\* outside the limits of its standard, or under "ISO" a PMV outside [-2, 2],
\* ends by returning pmv NaN and ppd NaN; a call of pmv_ppd_array ends by
\* returning NaN at exactly such indices; and with limit_inputs false the
\* call returns numbers.  (SI units, airspeed_control true.)
C22_OutsideLimitsGivesNaN ==
  LET lo(standard, k) ==
        CASE k = "met" -> IF standard = "ISO" THEN 800000 ELSE S
          [] k \in {"tdb", "tr"} -> 10 * S
          [] OTHER -> 0
      hi(standard, k) ==
        CASE k = "tdb" -> IF standard = "ISO" THEN 30 * S ELSE 40 * S
          [] k = "tr" -> 40 * S
          [] k = "vr" -> IF standard = "ISO" THEN S ELSE 2 * S
          [] k = "met" -> 4 * S
          [] OTHER -> IF standard = "ISO" THEN 2 * S ELSE 1500000
      outside(o) == \E k \in {"tdb", "tr", "vr", "met", "clo"} :
                      o[k] < lo(o.standard, k) \/ o[k] > hi(o.standard, k)
      examined(c) == /\ c.fn \in {"pmv_ppd", "pmv_ppd_array"}
                     /\ c.args.standard \in {"ISO", "ASHRAE"}
                     /\ pmv_kwargs(c.args.kwargs).units = "SI"
                     /\ pmv_kwargs(c.args.kwargs).airspeed_control
      limited(c) == pmv_kwargs(c.args.kwargs).limit_inputs
  IN  /\ (pc \in {"done", "error"} /\ call.fn = "pmv_ppd" /\ examined(call))
           => /\ ret.error = ""
              /\ (limited(call) /\ outside(call.args))
                   => (ret.value.pmv = NaN /\ ret.value.ppd = NaN)
              /\ (limited(call) /\ call.args.standard = "ISO"
                    /\ Abs(PmvValue(sim)) > 2 * S)
                   => (ret.value.pmv = NaN /\ ret.value.ppd = NaN)
              /\ (~limited(call)) => (ret.value.pmv # NaN /\ ret.value.ppd # NaN)
      /\ (pc \in {"done", "error"} /\ call.fn = "pmv_ppd_array" /\ examined(call)
            /\ prev = NoCall)
           => /\ ret.error = ""
              /\ \A i \in 1..Len(ret.value.pmv) :
                   /\ (limited(call) /\ outside(PmvIndexCall(call.args, i)))
                        => (ret.value.pmv[i] = NaN /\ ret.value.ppd[i] = NaN)
                   /\ (limited(call) /\ ~outside(PmvIndexCall(call.args, i))
                         /\ Abs(arr.pmv_array[i]) <= 2 * S)
                        => (ret.value.pmv[i] # NaN /\ ret.value.ppd[i] # NaN)
                   /\ (~limited(call))
                        => (ret.value.pmv[i] # NaN /\ ret.value.ppd[i] # NaN)

\* C23: when pmv_ppd_array has returned and pmv_ppd is then called with the
\* elements the caller's arrays had at index i, the same standard and the same
\* kwargs, pmv_ppd returns, and its pmv and ppd are pmv[i] and ppd[i] of the
\* array call, whether or not one array object was passed for two parameters.
C23_ArrayEqualsScalar ==
  (pc \in {"done", "error"} /\ call.fn = "pmv_ppd" /\ prev # NoCall
     /\ prev.ret.error = "")
    => /\ ret.error = ""
       /\ prev.ret.value.pmv[call.index] = ret.value.pmv
       /\ prev.ret.value.ppd[call.index] = ret.value.ppd

\* C26: when pmv_ppd_array has returned, every array the caller passed holds
\* the elements it held before the call; and a second call with the same
\* array objects, standard and kwargs returns what the first returned.
C26_InputArraysUnchanged ==
  /\ (pc = "done" /\ call.fn = "pmv_ppd_array")
       => \A r \in DOMAIN call.args.heap : arr.heap[r] = call.args.heap[r]
  /\ (pc \in {"done", "error"} /\ call.fn = "pmv_ppd_array" /\ prev # NoCall)
       => ret = prev.ret

====
